---- MODULE Spec2Model ----
(***************************************************************************)
(* Model of the backend of code_documentor: the dependency-graph engine    *)
(* (backend/app/parsers/dependency_analyzer.py), the pipeline, the file    *)
(* tree, the parse fan-out and the React Flow output of                    *)
(* backend/app/services/analysis_service.py,                               *)
(* the clone life cycle of backend/app/utils/github_cloner.py behind the   *)
(* endpoints of backend/app/main.py, and the Python parser                 *)
(* (backend/app/parsers/python_parser.py).                                 *)
(*                                                                         *)
(* A Python str is a sequence of one-character strings, so that prefix     *)
(* tests, splitting on "/", suffix concatenation, backslash replacement    *)
(* and lexicographic comparison are computed as the code computes them.    *)
(* A dict is the sequence of its items in insertion order.                 *)
(***************************************************************************)
EXTENDS Integers, Sequences, FiniteSets, TLC

VARIABLES
    pc,               \* position in analyze_repository_graph / find_circular_dependencies
    all_files,        \* Dict[str, FileNode] returned by _parse_all_files
    graph,            \* Dict[str, List[str]] returned by build_dependency_graph
    dep_analysis,     \* DependencyAnalysis returned by analyze_dependencies
    visited,          \* find_circular_dependencies: visited
    recursion_stack,  \* find_circular_dependencies: recursion_stack
    all_cycles,       \* find_circular_dependencies: all_cycles
    nodes,            \* find_circular_dependencies: nodes = list(graph.keys())
    node_index,       \* position of the loop `for node in nodes`
    frames,           \* active calls of _find_cycles_dfs: [node, next neighbour index]
    cycles,           \* list returned by find_circular_dependencies
    resolve_call,     \* a direct call of _resolve_relative_import and its result
    hierarchy,        \* FolderNode tree returned by build_file_tree
    parse_pc,         \* position in _parse_all_files
    file_paths,       \* _parse_all_files: the files to parse and what parsing each meets
    tasks,            \* _parse_all_files: the _parse_single_file coroutines, by position
    executor_queue,   \* work submitted by asyncio.to_thread and not yet picked up
    results,          \* _parse_all_files: results of asyncio.gather
    result_index,     \* position of the loop `for result in results`
    parsed_file_nodes, \* _parse_all_files: file_nodes
    requests,         \* the requests to the /analyze endpoints and where each stands
    active_clones,    \* github_cloner.active_clones
    repo_dirs,        \* the directories that exist under settings.TEMP_REPO_DIR
    module_ast,       \* parse_python_file: tree = ast.parse(content), the body of the module
    python_result,    \* parse_python_file: the value returned
    graph_nodes,      \* analyze_repository_graph: graph_nodes
    graph_edges       \* analyze_repository_graph: graph_edges

vars == <<pc, all_files, graph, dep_analysis, visited, recursion_stack,
          all_cycles, nodes, node_index, frames, cycles, resolve_call,
          hierarchy, parse_pc, file_paths, tasks, executor_queue, results,
          result_index, parsed_file_nodes, requests, active_clones, repo_dirs,
          module_ast, python_result, graph_nodes, graph_edges>>

\* The value _build_react_flow_graph returned.
flow_vars == <<graph_nodes, graph_edges>>

\* The state of parse_python_file.
python_vars == <<module_ast, python_result>>

\* The state of the endpoints and of github_cloner.
request_vars == <<requests, active_clones, repo_dirs>>

\* The state of _parse_all_files.
parse_vars == <<parse_pc, file_paths, tasks, executor_queue, results, result_index, parsed_file_nodes>>

\* The state of build_file_tree.
tree_vars == <<hierarchy>>

\* The state outside the dependency pipeline and the resolver.
service_vars == <<tree_vars, parse_vars, request_vars, python_vars, flow_vars>>

-----------------------------------------------------------------------------
(* Strings *)

\* The characters the model uses, in ascending code point order:
\* '.' 46, '/' 47, '\' 92, '_' 95, 'a'..'z' 97..122.
CodePointOrder ==
    <<".", "/", "\\", "_", "a", "b", "c", "d", "e", "f", "g", "h", "i", "j",
      "k", "l", "m", "n", "o", "p", "q", "r", "s", "t", "u", "v", "w", "x",
      "y", "z">>

Ord(c) == CHOOSE i \in 1..Len(CodePointOrder) : CodePointOrder[i] = c

\* The value None; "None" is not a character, so no str equals it.
None == <<"None">>

\* a < b on str: lexicographic by code point, a proper prefix is smaller.
RECURSIVE StrLessFrom(_, _, _)
StrLessFrom(a, b, i) ==
    IF i > Len(b) THEN FALSE
    ELSE IF i > Len(a) THEN TRUE
    ELSE IF a[i] = b[i] THEN StrLessFrom(a, b, i + 1)
    ELSE Ord(a[i]) < Ord(b[i])

StrLess(a, b) == StrLessFrom(a, b, 1)

\* s.startswith(".")
StartsWithDot(s) == Len(s) > 0 /\ s[1] = "."

\* s.replace("\\", "/")
ReplaceBackslash(s) == [i \in 1..Len(s) |-> IF s[i] = "\\" THEN "/" ELSE s[i]]

\* s.split("/")
RECURSIVE SplitFrom(_, _, _)
SplitFrom(s, i, cur) ==
    IF i > Len(s) THEN <<cur>>
    ELSE IF s[i] = "/" THEN <<cur>> \o SplitFrom(s, i + 1, <<>>)
    ELSE SplitFrom(s, i + 1, Append(cur, s[i]))

SplitSlash(s) == SplitFrom(s, 1, <<>>)

\* "/".join(parts)
RECURSIVE JoinSlash(_)
JoinSlash(parts) ==
    IF parts = <<>> THEN <<>>
    ELSE IF Len(parts) = 1 THEN parts[1]
    ELSE parts[1] \o <<"/">> \o JoinSlash(Tail(parts))

-----------------------------------------------------------------------------
(* pathlib.PurePosixPath and posixpath.normpath, as used by the resolver *)

IsDot(p) == p = <<".">>
IsDotDot(p) == p = <<".", ".">>

\* Path(s): the root flag and the parts; empty and "." components vanish.
PurePath(s) ==
    [root  |-> Len(s) > 0 /\ s[1] = "/",
     parts |-> SelectSeq(SplitSlash(s), LAMBDA p : p # <<>> /\ ~IsDot(p))]

\* str(path)
PathStr(p) ==
    IF p.parts = <<>> THEN (IF p.root THEN <<"/">> ELSE <<".">>)
    ELSE (IF p.root THEN <<"/">> ELSE <<>>) \o JoinSlash(p.parts)

\* path.parent
PathParent(p) ==
    IF p.parts = <<>> THEN p
    ELSE [p EXCEPT !.parts = SubSeq(p.parts, 1, Len(p.parts) - 1)]

\* path / s : a rooted right operand replaces the left one.
PathJoin(p, s) ==
    LET q == PurePath(s)
    IN  IF q.root THEN q ELSE [root |-> p.root, parts |-> p.parts \o q.parts]

\* The component loop of posixpath.normpath.
RECURSIVE NormComps(_, _, _, _)
NormComps(comps, i, new_comps, initial_slash) ==
    IF i > Len(comps) THEN new_comps
    ELSE LET comp == comps[i]
         IN  IF comp = <<>> \/ IsDot(comp)
                THEN NormComps(comps, i + 1, new_comps, initial_slash)
             ELSE IF \/ ~IsDotDot(comp)
                     \/ (~initial_slash /\ new_comps = <<>>)
                     \/ (new_comps # <<>> /\ IsDotDot(new_comps[Len(new_comps)]))
                THEN NormComps(comps, i + 1, Append(new_comps, comp), initial_slash)
             ELSE IF new_comps # <<>>
                THEN NormComps(comps, i + 1,
                               SubSeq(new_comps, 1, Len(new_comps) - 1), initial_slash)
             ELSE NormComps(comps, i + 1, new_comps, initial_slash)

\* os.path.normpath(s)
Normpath(s) ==
    IF s = <<>> THEN <<".">>
    ELSE LET initial_slash == s[1] = "/"
             joined == JoinSlash(NormComps(SplitSlash(s), 1, <<>>, initial_slash))
             path == IF initial_slash THEN <<"/">> \o joined ELSE joined
         IN  IF path = <<>> THEN <<".">> ELSE path

-----------------------------------------------------------------------------
(* Dicts in insertion order *)

\* The keys of a Dict[str, FileNode]: every FileNode is stored under its path.
FileKeys(files) == {files[i].path : i \in 1..Len(files)}

\* key in files
HasFile(files, key) == key \in FileKeys(files)

\* graph.keys() as a list
GraphKeyList(g) == [i \in 1..Len(g) |-> g[i].key]

GraphKeys(g) == {g[i].key : i \in 1..Len(g)}

\* graph.get(key, [])
GraphGet(g, key) ==
    IF key \in GraphKeys(g)
    THEN (g[CHOOSE i \in 1..Len(g) : g[i].key = key]).deps
    ELSE <<>>

-----------------------------------------------------------------------------
(* _resolve_relative_import *)

\* extensions_to_try with the JavaScript extension tried before the Python one.
extensions_js_first ==
    << <<>>,
       <<".", "j", "s">>,
       <<".", "p", "y">>,
       <<".", "t", "s">>,
       <<".", "j", "s", "x">>,
       <<".", "t", "s", "x">>,
       <<"/", "_", "_", "i", "n", "i", "t", "_", "_", ".", "p", "y">>,
       <<"/", "i", "n", "d", "e", "x", ".", "j", "s">>,
       <<"/", "i", "n", "d", "e", "x", ".", "t", "s">> >>

extensions_to_try ==
    << <<>>,
       <<".", "p", "y">>,
       <<".", "j", "s">>,
       <<".", "t", "s">>,
       <<".", "j", "s", "x">>,
       <<".", "t", "s", "x">>,
       <<"/", "_", "_", "i", "n", "i", "t", "_", "_", ".", "p", "y">>,
       <<"/", "i", "n", "d", "e", "x", ".", "j", "s">>,
       <<"/", "i", "n", "d", "e", "x", ".", "t", "s">> >>

\* The loop over extensions_to_try, from position i on.
RECURSIVE TryExtensions(_, _, _)
TryExtensions(resolved_path_str, files, i) ==
    IF i > Len(extensions_to_try) THEN None
    ELSE LET path_with_ext ==
                 ReplaceBackslash(resolved_path_str \o extensions_to_try[i])
         IN  IF HasFile(files, path_with_ext) THEN path_with_ext
             ELSE TryExtensions(resolved_path_str, files, i + 1)

ResolveRelativeImport(import_path, current_file, files) ==
    LET current_dir == PathParent(PurePath(current_file.path))
        resolved_path_str == Normpath(PathStr(PathJoin(current_dir, import_path)))
    IN  IF HasFile(files, resolved_path_str) THEN resolved_path_str
        ELSE TryExtensions(resolved_path_str, files, 1)

-----------------------------------------------------------------------------
(* build_dependency_graph *)

\* ImportEdge without the test of the relative marker.
ImportEdgeAnySpecifier(import_path, file_node, files) ==
    LET resolved == ResolveRelativeImport(import_path, file_node, files)
    IN  IF resolved # None /\ resolved # <<>> /\ HasFile(files, resolved)
        THEN <<resolved>>
        ELSE <<>>

\* ImportEdge that appends the specifier itself when resolution fails.
ImportEdgeOrSpecifier(import_path, file_node, files) ==
    IF ~StartsWithDot(import_path) THEN <<>>
    ELSE LET resolved == ResolveRelativeImport(import_path, file_node, files)
         IN  IF resolved # None THEN <<resolved>> ELSE <<import_path>>

\* ImportEdge that drops an import resolving to the importing file.
ImportEdgeNoSelfLoop(import_path, file_node, files) ==
    IF ~StartsWithDot(import_path) THEN <<>>
    ELSE LET resolved == ResolveRelativeImport(import_path, file_node, files)
         IN  IF resolved # None /\ HasFile(files, resolved) /\ resolved # file_node.path
             THEN <<resolved>>
             ELSE <<>>

\* One iteration of the loop over file_node.imports: the edges it appends.
ImportEdge(import_path, file_node, files) ==
    IF ~StartsWithDot(import_path) THEN <<>>
    ELSE LET resolved == ResolveRelativeImport(import_path, file_node, files)
         IN  IF resolved # None /\ resolved # <<>> /\ HasFile(files, resolved)
             THEN <<resolved>>
             ELSE <<>>

\* OutgoingEdges that keeps one edge per target.
RECURSIVE OutgoingEdgesNoDuplicates(_, _, _)
OutgoingEdgesNoDuplicates(file_node, files, i) ==
    IF i > Len(file_node.imports) THEN <<>>
    ELSE LET edge == ImportEdge(file_node.imports[i], file_node, files)
             rest == OutgoingEdgesNoDuplicates(file_node, files, i + 1)
         IN  IF edge # <<>> /\ \E j \in 1..Len(rest) : rest[j] = edge[1]
             THEN rest
             ELSE edge \o rest

\* The list graph[file_path] after the loop over the imports from position i on.
RECURSIVE OutgoingEdges(_, _, _)
OutgoingEdges(file_node, files, i) ==
    IF i > Len(file_node.imports) THEN <<>>
    ELSE ImportEdge(file_node.imports[i], file_node, files)
             \o OutgoingEdges(file_node, files, i + 1)

\* The defaultdict after the loop over all_files.items() from position i on:
\* a key is created by the first append to graph[file_path].
RECURSIVE GraphItems(_, _)
GraphItems(files, i) ==
    IF i > Len(files) THEN <<>>
    ELSE LET deps == OutgoingEdges(files[i], files, 1)
         IN  (IF deps = <<>> THEN <<>> ELSE <<[key |-> files[i].path, deps |-> deps]>>)
                 \o GraphItems(files, i + 1)

BuildDependencyGraph(files) == GraphItems(files, 1)

-----------------------------------------------------------------------------
(* analyze_dependencies *)

\* graph.values(), concatenated in iteration order.
RECURSIVE AllTargets(_, _)
AllTargets(g, i) ==
    IF i > Len(g) THEN <<>> ELSE g[i].deps \o AllTargets(g, i + 1)

\* CountOccurrences that counts a path once however often it occurs.
CountOccurrencesOnce(targets, path, i) ==
    IF \E k \in i..Len(targets) : targets[k] = path THEN 1 ELSE 0

\* Counter.update(dependencies): one increment per occurrence of path.
RECURSIVE CountOccurrences(_, _, _)
CountOccurrences(targets, path, i) ==
    IF i > Len(targets) THEN 0
    ELSE (IF targets[i] = path THEN 1 ELSE 0) + CountOccurrences(targets, path, i + 1)

\* imported_by_counter.get(path, 0)
ImportedByCounter(g, path) == CountOccurrences(AllTargets(g, 1), path, 1)

\* set(imported_by_counter.keys())
CounterKeys(g) == LET t == AllTargets(g, 1) IN {t[i] : i \in 1..Len(t)}

\* files_in_graph
FilesInGraph(g) == GraphKeys(g) \cup CounterKeys(g)

\* imports_counter.get(path, 0): imports_counter has one entry per file path.
ImportsCounter(files, g, path) ==
    IF HasFile(files, path) THEN Len(GraphGet(g, path)) ELSE 0

\* IsIsolated that ignores the incoming edges.
IsIsolatedNoOutgoing(imports_count, imported_by_count, file_path, all_file_paths) ==
    imports_count = 0 /\ file_path \in all_file_paths

\* The condition under which the loop appends file_path to isolated_files.
IsIsolated(imports_count, imported_by_count, file_path, all_file_paths) ==
    imports_count = 0 /\ imported_by_count = 0 /\ file_path \in all_file_paths

DependencyInfo(files, g, path) ==
    [path              |-> path,
     imported_by_count |-> ImportedByCounter(g, path),
     imports_count     |-> ImportsCounter(files, g, path)]

\* The iteration orders a set can have: every arrangement of its elements.
Orderings(S) ==
    {s \in [1..Cardinality(S) -> S] : \A i, j \in 1..Cardinality(S) : i # j => s[i] # s[j]}

\* sorted(seq, key=lambda x: x.<field>, reverse=True): stable, so entries
\* with equal keys keep the order they have in seq.
RECURSIVE SortedReverse(_, _, _)
SortedReverse(seq, field, i) ==
    IF i > Len(seq) THEN <<>>
    ELSE LET rest == SortedReverse(seq, field, i + 1)
             x == seq[i]
             \* x goes before every later entry whose key is not larger
             ahead == SelectSeq(rest, LAMBDA y : y[field] > x[field])
             behind == SelectSeq(rest, LAMBDA y : y[field] <= x[field])
         IN  ahead \o <<x>> \o behind

\* The slice bound of most_imported and most_importing.
TopN == 10

\* seq[:n]
Take(seq, n) == SubSeq(seq, 1, IF Len(seq) < n THEN Len(seq) ELSE n)

\* The sort keys of most_imported and most_importing.
ByImportedByCount == "imported_by_count"

ByImportsCount == "imports_count"

MostImported(dep_info) == Take(SortedReverse(dep_info, ByImportedByCount, 1), TopN)

MostImporting(dep_info) == Take(SortedReverse(dep_info, ByImportsCount, 1), TopN)

\* analyze_dependencies, given the iteration orders of its two sets.
AnalyzeDependencies(files, g, paths_order, in_graph_order) ==
    LET all_file_paths == FileKeys(files)
        isolated_files ==
            SelectSeq(paths_order,
                      LAMBDA file_path :
                          IsIsolated(Len(GraphGet(g, file_path)),
                                     ImportedByCounter(g, file_path),
                                     file_path, all_file_paths))
        dep_info == [i \in 1..Len(in_graph_order) |->
                         DependencyInfo(files, g, in_graph_order[i])]
    IN  [most_imported         |-> MostImported(dep_info),
         most_importing        |-> MostImporting(dep_info),
         isolated_files        |-> isolated_files,
         circular_dependencies |-> <<>>]

-----------------------------------------------------------------------------
(* _find_cycles_dfs *)

\* sorted(strs) for a list of distinct str.
RECURSIVE SortedStrs(_, _)
SortedStrs(strs, i) ==
    IF i > Len(strs) THEN <<>>
    ELSE LET rest == SortedStrs(strs, i + 1)
             x == strs[i]
         IN  SelectSeq(rest, LAMBDA y : StrLess(y, x)) \o <<x>>
                 \o SelectSeq(rest, LAMBDA y : ~StrLess(y, x))

\* InStack that looks at the top of the stack only.
InStackTop(stack, node) == stack # <<>> /\ stack[Len(stack)] = node

InStack(stack, node) == \E i \in 1..Len(stack) : stack[i] = node

\* StackIndex that takes the whole stack for the cycle.
StackIndexBottom(stack, neighbor) == 1

\* recursion_stack.index(neighbor)
StackIndex(stack, neighbor) ==
    CHOOSE i \in 1..Len(stack) :
        stack[i] = neighbor /\ \A j \in 1..(i - 1) : stack[j] # neighbor

\* CycleTuple that keeps the order of the stack.
CycleTupleUnsorted(stack, neighbor) ==
    SubSeq(stack, StackIndex(stack, neighbor), Len(stack))

\* tuple(sorted(recursion_stack[start_index:]))
CycleTuple(stack, neighbor) ==
    SortedStrs(SubSeq(stack, StackIndex(stack, neighbor), Len(stack)), 1)

-----------------------------------------------------------------------------
(* The analyzed repositories *)

FileNode(path, imports) == [path |-> path, imports |-> imports]

\* Three modules of one directory that import each other.
FlatPaths == <<<<"a", ".", "p", "y">>, <<"b", ".", "p", "y">>, <<"c", ".", "p", "y">>>>

FlatSpecifiers == {<<".", "/", "a">>, <<".", "/", "b">>, <<".", "/", "c">>}

\* A repository with a sub-directory and a module name that exists at two
\* levels; specifiers: relative with and without extension, parent-relative,
\* bare, and Python's dotted relative forms (from .x import y, from ..m import y).
MixedPaths == <<<<"m", ".", "p", "y">>, <<"d", "/", "m", ".", "p", "y">>, <<"d", "/", "x", ".", "p", "y">>>>

MixedSpecifiers == {<<".", "/", "m", ".", "p", "y">>, <<".", "/", "x">>, <<".", ".", "/", "m">>, <<"m", ".", "p", "y">>, <<"m">>, <<".", "x">>, <<".", ".", "m">>}

\* The total number of import specifiers of a repository of each kind.
MaxFlatImports == 4

MaxMixedImports == 2

\* mock_file_nodes of tests/test_dependency_analyzer.py
MainPy == <<"a", "p", "p", "/", "m", "a", "i", "n", ".", "p", "y">>
HelpersPy == <<"a", "p", "p", "/", "u", "t", "i", "l", "s", "/", "h", "e", "l", "p", "e", "r", "s", ".", "p", "y">>
UserServicePy == <<"a", "p", "p", "/", "s", "e", "r", "v", "i", "c", "e", "s", "/", "u", "s", "e", "r", "_", "s", "e", "r", "v", "i", "c", "e", ".", "p", "y">>
AuthServicePy == <<"a", "p", "p", "/", "s", "e", "r", "v", "i", "c", "e", "s", "/", "a", "u", "t", "h", "_", "s", "e", "r", "v", "i", "c", "e", ".", "p", "y">>

MockFileNodes ==
    <<FileNode(MainPy, <<<<".", "/", "s", "e", "r", "v", "i", "c", "e", "s", "/", "u", "s", "e", "r", "_", "s", "e", "r", "v", "i", "c", "e">>,
                         <<".", "/", "s", "e", "r", "v", "i", "c", "e", "s", "/", "a", "u", "t", "h", "_", "s", "e", "r", "v", "i", "c", "e">>>>),
      FileNode(HelpersPy, <<>>),
      FileNode(UserServicePy, <<<<".", ".", "/", "u", "t", "i", "l", "s", "/", "h", "e", "l", "p", "e", "r", "s", ".", "p", "y">>,
                                <<".", "/", "a", "u", "t", "h", "_", "s", "e", "r", "v", "i", "c", "e">>>>),
      FileNode(AuthServicePy, <<<<".", "/", "u", "s", "e", "r", "_", "s", "e", "r", "v", "i", "c", "e">>>>)>>

\* The non-empty sub-lists of paths, in the order of paths.
SubLists(paths) ==
    {SelectSeq(paths, LAMBDA p : p \in keep) :
        keep \in (SUBSET {paths[i] : i \in 1..Len(paths)}) \ {{}}}

ImportLists(specifiers, n) == UNION {[1..k -> specifiers] : k \in 0..n}

\* The file maps over paths[i..] whose import lists hold at most budget
\* specifiers in total.
RECURSIVE FileMapsFrom(_, _, _, _)
FileMapsFrom(paths, i, specifiers, budget) ==
    IF i > Len(paths) THEN {<<>>}
    ELSE UNION {{<<FileNode(paths[i], imports)>> \o rest :
                    rest \in FileMapsFrom(paths, i + 1, specifiers, budget - Len(imports))} :
                imports \in ImportLists(specifiers, budget)}

FileMaps(universe, specifiers, budget) ==
    UNION {FileMapsFrom(paths, 1, specifiers, budget) : paths \in SubLists(universe)}

Repositories ==
    FileMaps(FlatPaths, FlatSpecifiers, MaxFlatImports)
        \cup FileMaps(MixedPaths, MixedSpecifiers, MaxMixedImports)
        \cup {MockFileNodes}

-----------------------------------------------------------------------------
(* analyze_repository_graph from the point where _parse_all_files returned *)

\* hierarchy before build_file_tree has returned.
NoTree == <<>>

TreeIdle == hierarchy = NoTree

\* The state of _parse_all_files when it is not called.
ParseIdle ==
    /\ parse_pc = "idle"
    /\ file_paths = <<>>
    /\ tasks = <<>>
    /\ executor_queue = <<>>
    /\ results = <<>>
    /\ result_index = 1
    /\ parsed_file_nodes = <<>>

\* No request has been received.
RequestsIdle ==
    /\ requests = <<>>
    /\ active_clones = {}
    /\ repo_dirs = {}

\* parse_python_file is not called.
NoPythonResult == [returned |-> FALSE, elements |-> <<>>, imports |-> <<>>]

PythonIdle ==
    /\ module_ast = <<>>
    /\ python_result = NoPythonResult

\* graph_nodes and graph_edges before _build_react_flow_graph has returned.
FlowIdle ==
    /\ graph_nodes = <<>>
    /\ graph_edges = <<>>

NoCall == [called |-> FALSE, import_path |-> <<>>, current_file |-> <<>>, result |-> None]

NoAnalysis ==
    [most_imported |-> <<>>, most_importing |-> <<>>,
     isolated_files |-> <<>>, circular_dependencies |-> <<>>]

Init ==
    /\ pc = "parsed"
    /\ all_files \in Repositories
    /\ graph = <<>>
    /\ dep_analysis = NoAnalysis
    /\ visited = {}
    /\ recursion_stack = <<>>
    /\ all_cycles = {}
    /\ nodes = <<>>
    /\ node_index = 1
    /\ frames = <<>>
    /\ cycles = <<>>
    /\ resolve_call = NoCall
    /\ TreeIdle
    /\ ParseIdle
    /\ RequestsIdle
    /\ PythonIdle
    /\ FlowIdle

dfs_vars == <<visited, recursion_stack, all_cycles, nodes, node_index, frames, cycles>>

pipeline_vars == <<pc, all_files, graph, dep_analysis, dfs_vars>>

\* dep_graph = build_dependency_graph(all_files)
BuildGraph ==
    /\ pc = "parsed"
    /\ graph' = BuildDependencyGraph(all_files)
    /\ pc' = "graph"
    /\ UNCHANGED <<all_files, dep_analysis, dfs_vars, resolve_call, service_vars>>

\* dep_analysis = analyze_dependencies(all_files, dep_graph); the two sets it
\* iterates over (all_file_paths, files_in_graph) are sets of str, whose
\* iteration order is not fixed by their content.
Analyze ==
    /\ pc = "graph"
    /\ \E paths_order \in Orderings(FileKeys(all_files)),
          in_graph_order \in Orderings(FilesInGraph(graph)) :
          dep_analysis' = AnalyzeDependencies(all_files, graph, paths_order, in_graph_order)
    /\ pc' = "analyzed"
    /\ UNCHANGED <<all_files, graph, dfs_vars, resolve_call, service_vars>>

\* find_circular_dependencies, up to the loop over nodes.
FindCircularDependencies ==
    /\ pc = "analyzed"
    /\ visited' = {}
    /\ recursion_stack' = <<>>
    /\ all_cycles' = {}
    /\ nodes' = GraphKeyList(graph)
    /\ node_index' = 1
    /\ frames' = <<>>
    /\ pc' = "loop"
    /\ UNCHANGED <<all_files, graph, dep_analysis, cycles, resolve_call, service_vars>>

\* The entry of _find_cycles_dfs(node, ...): visited.add, recursion_stack.append.
Enter(node, callers) ==
    /\ visited' = visited \cup {node}
    /\ recursion_stack' = Append(recursion_stack, node)
    /\ frames' = Append(callers, [node |-> node, i |-> 1])

\* for node in nodes without the test `if node not in visited`.
LoopCallVisitedToo ==
    /\ pc = "loop"
    /\ node_index <= Len(nodes)
    /\ Enter(nodes[node_index], frames)
    /\ node_index' = node_index + 1
    /\ pc' = "dfs"
    /\ UNCHANGED <<all_files, graph, dep_analysis, all_cycles, nodes, cycles, resolve_call, service_vars>>

\* for node in nodes: node is not visited, the traversal starts from it.
LoopCall ==
    /\ pc = "loop"
    /\ node_index <= Len(nodes)
    /\ nodes[node_index] \notin visited
    /\ Enter(nodes[node_index], frames)
    /\ node_index' = node_index + 1
    /\ pc' = "dfs"
    /\ UNCHANGED <<all_files, graph, dep_analysis, all_cycles, nodes, cycles, resolve_call, service_vars>>

\* for node in nodes: node is visited already.
LoopSkip ==
    /\ pc = "loop"
    /\ node_index <= Len(nodes)
    /\ nodes[node_index] \in visited
    /\ node_index' = node_index + 1
    /\ UNCHANGED <<pc, all_files, graph, dep_analysis, visited, recursion_stack,
                   all_cycles, nodes, frames, cycles, resolve_call, service_vars>>

\* The running call and the neighbour its loop looks at next.
Top == frames[Len(frames)]
Neighbors == GraphGet(graph, Top.node)
Advanced == [frames EXCEPT ![Len(frames)].i = Top.i + 1]

\* neighbor not in visited: the recursive call.
DfsDescend ==
    /\ pc = "dfs"
    /\ Top.i <= Len(Neighbors)
    /\ Neighbors[Top.i] \notin visited
    /\ Enter(Neighbors[Top.i], Advanced)
    /\ UNCHANGED <<pc, all_files, graph, dep_analysis, all_cycles, nodes, node_index, cycles,
                   resolve_call, service_vars>>

\* The cycle branch that records nothing when the neighbour is the node itself.
DfsCycleIgnoresSelfEdge ==
    /\ pc = "dfs"
    /\ Top.i <= Len(Neighbors)
    /\ Neighbors[Top.i] \in visited
    /\ InStack(recursion_stack, Neighbors[Top.i])
    /\ all_cycles' = IF Neighbors[Top.i] = Top.node THEN all_cycles
                      ELSE all_cycles \cup {CycleTuple(recursion_stack, Neighbors[Top.i])}
    /\ frames' = Advanced
    /\ UNCHANGED <<pc, all_files, graph, dep_analysis, visited, recursion_stack,
                   nodes, node_index, cycles, resolve_call, service_vars>>

\* neighbor in recursion_stack: the slice of the stack is recorded.
DfsCycle ==
    /\ pc = "dfs"
    /\ Top.i <= Len(Neighbors)
    /\ Neighbors[Top.i] \in visited
    /\ InStack(recursion_stack, Neighbors[Top.i])
    /\ all_cycles' = all_cycles \cup {CycleTuple(recursion_stack, Neighbors[Top.i])}
    /\ frames' = Advanced
    /\ UNCHANGED <<pc, all_files, graph, dep_analysis, visited, recursion_stack,
                   nodes, node_index, cycles, resolve_call, service_vars>>

\* neighbor visited and not on the stack: nothing happens.
DfsSkip ==
    /\ pc = "dfs"
    /\ Top.i <= Len(Neighbors)
    /\ Neighbors[Top.i] \in visited
    /\ ~InStack(recursion_stack, Neighbors[Top.i])
    /\ frames' = Advanced
    /\ UNCHANGED <<pc, all_files, graph, dep_analysis, visited, recursion_stack,
                   all_cycles, nodes, node_index, cycles, resolve_call, service_vars>>

\* The return of _find_cycles_dfs without recursion_stack.pop().
DfsReturnWithoutPop ==
    /\ pc = "dfs"
    /\ Top.i > Len(Neighbors)
    /\ frames' = SubSeq(frames, 1, Len(frames) - 1)
    /\ pc' = IF Len(frames) = 1 THEN "loop" ELSE "dfs"
    /\ UNCHANGED <<all_files, graph, dep_analysis, visited, recursion_stack, all_cycles, nodes,
                   node_index, cycles, resolve_call, service_vars>>

\* The loop over the neighbours is over: recursion_stack.pop() and return.
DfsReturn ==
    /\ pc = "dfs"
    /\ Top.i > Len(Neighbors)
    /\ recursion_stack' = SubSeq(recursion_stack, 1, Len(recursion_stack) - 1)
    /\ frames' = SubSeq(frames, 1, Len(frames) - 1)
    /\ pc' = IF Len(frames) = 1 THEN "loop" ELSE "dfs"
    /\ UNCHANGED <<all_files, graph, dep_analysis, visited, all_cycles, nodes,
                   node_index, cycles, resolve_call, service_vars>>

\* The return of find_circular_dependencies (all_cycles is a set: its
\* iteration order is not fixed) and dep_analysis.circular_dependencies = cycles.
ReturnCycles ==
    /\ pc = "loop"
    /\ node_index > Len(nodes)
    /\ \E order \in Orderings(all_cycles) :
          /\ cycles' = order
          /\ dep_analysis' = [dep_analysis EXCEPT !.circular_dependencies = order]
    /\ pc' = "done"
    /\ UNCHANGED <<all_files, graph, visited, recursion_stack, all_cycles, nodes,
                   node_index, frames, resolve_call, service_vars>>

\* Path.suffix: the last component from its last "." on, "" without one or
\* with the only one in first position.
RECURSIVE LastIndexOf(_, _, _)
LastIndexOf(str, c, i) ==
    IF i = 0 THEN 0 ELSE IF str[i] = c THEN i ELSE LastIndexOf(str, c, i - 1)

Suffix(path) ==
    LET parts == SplitSlash(ReplaceBackslash(path))
        name == parts[Len(parts)]
        dot == LastIndexOf(name, ".", Len(name))
    IN  IF dot <= 1 THEN <<>> ELSE SubSeq(name, dot, Len(name))

\* get_language_from_extension
GetLanguageFromExtension(ext) ==
    IF ext = <<".", "p", "y">> THEN "python"
    ELSE IF ext \in {<<".", "j", "s">>, <<".", "j", "s", "x">>} THEN "javascript"
    ELSE IF ext \in {<<".", "t", "s">>, <<".", "t", "s", "x">>} THEN "typescript"
    ELSE "unknown"

\* GraphNode (models.py)
GraphNode(id, type, data, position) ==
    [id |-> id, type |-> type, data |-> data, position |-> position]

\* GraphEdge (models.py)
GraphEdge(id, source, target, animated, style) ==
    [id |-> id, source |-> source, target |-> target, animated |-> animated, style |-> style]

\* nodes_in_cycle = {node for cycle in circular_deps for node in cycle.nodes}
NodesInCycle(circular_deps) ==
    UNION {{circular_deps[c][i] : i \in 1..Len(circular_deps[c])} : c \in 1..Len(circular_deps)}

\* 1. Create nodes: one GraphNode for each item of all_files, in its order;
\* the language of the FileNode is the one of its extension.
CreateNodes(files, nodes_in_cycle) ==
    [i \in 1..Len(files) |->
        GraphNode(files[i].path,
                  IF files[i].path \in nodes_in_cycle THEN "customError" ELSE "custom",
                  [label |-> files[i].path,
                   language |-> GetLanguageFromExtension(Suffix(files[i].path))],
                  [x |-> "0", y |-> "0"])]

\* f"{source_file}__TO__{target_file}"
EdgeId(source_file, target_file) ==
    source_file \o <<"_", "_", "T", "O", "_", "_">> \o target_file

\* The inner loop: one GraphEdge for each entry of dependencies; style is
\* {"stroke": "red"}, written "red", or None.
EdgesOf(source_file, dependencies, nodes_in_cycle) ==
    [j \in 1..Len(dependencies) |->
        GraphEdge(EdgeId(source_file, dependencies[j]), source_file, dependencies[j], FALSE,
                  IF source_file \in nodes_in_cycle /\ dependencies[j] \in nodes_in_cycle
                  THEN "red" ELSE "None")]

\* 2. Create edges: for source_file, dependencies in graph.items()
RECURSIVE CreateEdges(_, _, _)
CreateEdges(g, i, nodes_in_cycle) ==
    IF i > Len(g) THEN <<>>
    ELSE EdgesOf(g[i].key, g[i].deps, nodes_in_cycle) \o CreateEdges(g, i + 1, nodes_in_cycle)

\* _layout_graph_with_dagre: the nodes, each with the position the layout
\* of dagre_py gives it (the coordinates are not computed here).
LayoutGraphWithDagre(flow_nodes, flow_edges) ==
    [i \in 1..Len(flow_nodes) |-> [flow_nodes[i] EXCEPT !.position = [x |-> "dagre", y |-> "dagre"]]]

\* _build_react_flow_graph(all_files, graph, circular_deps)
BuildReactFlowGraphOf(files, g, circular_deps) ==
    LET nodes_in_cycle == NodesInCycle(circular_deps)
        flow_nodes == CreateNodes(files, nodes_in_cycle)
        flow_edges == CreateEdges(g, 1, nodes_in_cycle)
    IN  [nodes |-> LayoutGraphWithDagre(flow_nodes, flow_edges), edges |-> flow_edges]

\* graph_nodes, graph_edges = _build_react_flow_graph(all_files, dep_graph, cycles)
BuildReactFlowGraph ==
    /\ pc = "done"
    /\ LET flow == BuildReactFlowGraphOf(all_files, graph, cycles)
       IN  /\ graph_nodes' = flow.nodes
           /\ graph_edges' = flow.edges
    /\ pc' = "response"
    /\ UNCHANGED <<all_files, graph, dep_analysis, dfs_vars, resolve_call,
                   tree_vars, parse_vars, request_vars, python_vars>>

Next ==
    \/ BuildGraph
    \/ Analyze
    \/ FindCircularDependencies
    \/ LoopCall
    \/ LoopSkip
    \/ DfsDescend
    \/ DfsCycle
    \/ DfsSkip
    \/ DfsReturn
    \/ ReturnCycles
    \/ BuildReactFlowGraph

Spec == Init /\ [][Next]_vars

-----------------------------------------------------------------------------
(* _resolve_relative_import called on its own, as test_resolve_relative_import does *)

\* The importing module and every file a probe of "./x" can hit.
OriginPath == <<"d", "/", "m", ".", "p", "y">>

CandidatePaths == <<<<"d", "/", "x", ".", "p", "y">>, <<"d", "/", "x", ".", "j", "s">>, <<"d", "/", "x", ".", "t", "s">>, <<"d", "/", "x", ".", "j", "s", "x">>, <<"d", "/", "x", ".", "t", "s", "x">>,
                    <<"d", "/", "x", "/", "_", "_", "i", "n", "i", "t", "_", "_", ".", "p", "y">>,
                    <<"d", "/", "x", "/", "i", "n", "d", "e", "x", ".", "j", "s">>,
                    <<"d", "/", "x", "/", "i", "n", "d", "e", "x", ".", "t", "s">>>>

ResolveSpecifiers ==
    {<<".", "/", "x">>, <<".", "/", "x", ".", "j", "s">>, <<".", ".", "/", "d", "/", "x">>, <<".", "/", "x", "/", "i", "n", "d", "e", "x">>, <<"x">>,
     <<".", "x">>, <<".", "/", "z", "z">>,
     <<".", "/", "x", "\\", "i", "n", "d", "e", "x", ".", "t", "s">>}

NoImports(paths) == [i \in 1..Len(paths) |-> FileNode(paths[i], <<>>)]

ResolveRepositories ==
    {NoImports(<<OriginPath>> \o SelectSeq(CandidatePaths, LAMBDA p : p \in present)) :
        present \in SUBSET {CandidatePaths[i] : i \in 1..Len(CandidatePaths)}}

InitResolve ==
    /\ pc = "parsed"
    /\ all_files \in ResolveRepositories
    /\ graph = <<>>
    /\ dep_analysis = NoAnalysis
    /\ visited = {}
    /\ recursion_stack = <<>>
    /\ all_cycles = {}
    /\ nodes = <<>>
    /\ node_index = 1
    /\ frames = <<>>
    /\ cycles = <<>>
    /\ resolve_call = NoCall
    /\ TreeIdle
    /\ ParseIdle
    /\ RequestsIdle
    /\ PythonIdle
    /\ FlowIdle

\* resolved = _resolve_relative_import(import_path, current_file, all_files)
ResolveCall ==
    /\ \E import_path \in ResolveSpecifiers, i \in 1..Len(all_files) :
          resolve_call' =
              [called       |-> TRUE,
               import_path  |-> import_path,
               current_file |-> all_files[i].path,
               result       |-> ResolveRelativeImport(import_path, all_files[i], all_files)]
    /\ UNCHANGED <<pipeline_vars, service_vars>>

NextResolve == ResolveCall

SpecResolve == InitResolve /\ [][NextResolve]_vars

-----------------------------------------------------------------------------
(* Properties of build_dependency_graph *)

\* The graph as build_dependency_graph returned it, and as the pipeline ends with it.
Built == pc \in {"graph", "done"}

Range(seq) == {seq[i] : i \in 1..Len(seq)}

\* The directory-relative path a specifier of file_node names.
TargetPath(import_path, file_node) ==
    Normpath(PathStr(PathJoin(PathParent(PurePath(file_node.path)), import_path)))

RelativeImports(file_node) == SelectSeq(file_node.imports, StartsWithDot)

\* C1: the edge list of every file is the one the file would have without
\* its specifiers that do not begin with '.', and a file with no specifier
\* beginning with '.' has no key in the graph: such a specifier never
\* produces an edge, whatever files exist.
C1_BareSpecifierNoEdge ==
    Built =>
        \A i \in 1..Len(all_files) :
            LET f == all_files[i]
            IN  /\ GraphGet(graph, f.path) =
                       OutgoingEdges(FileNode(f.path, RelativeImports(f)), all_files, 1)
                /\ Len(GraphGet(graph, f.path)) <= Len(RelativeImports(f))
                /\ RelativeImports(f) = <<>> => f.path \notin GraphKeys(graph)

\* A graph was built for a file whose only specifiers are bare and name an
\* existing file (exactly, or with a probed suffix), and it has no edge.
C1_Witness ==
    /\ Built
    /\ \E i \in 1..Len(all_files) :
          LET f == all_files[i]
          IN  /\ f.imports # <<>>
              /\ \A k \in 1..Len(f.imports) :
                    /\ ~StartsWithDot(f.imports[k])
                    /\ ResolveRelativeImport(f.imports[k], f, all_files) # None
              /\ \E k \in 1..Len(f.imports) : HasFile(all_files, f.imports[k])
              /\ \E k \in 1..Len(f.imports) : ~HasFile(all_files, f.imports[k])
              /\ f.path \notin GraphKeys(graph)

Unresolved(import_path, file_node) ==
    ~StartsWithDot(import_path)
        \/ ResolveRelativeImport(import_path, file_node, all_files) = None

GraphInsideFileMap ==
    Built =>
        /\ GraphKeys(graph) \subseteq FileKeys(all_files)
        /\ \A i \in 1..Len(graph) : Range(graph[i].deps) \subseteq FileKeys(all_files)
        /\ \A i \in 1..Len(all_files) :
              LET f == all_files[i]
                  resolving == {k \in 1..Len(f.imports) : ~Unresolved(f.imports[k], f)}
              IN  Len(GraphGet(graph, f.path)) = Cardinality(resolving)

\* C3: every key and every edge target of the built graph is a key of the
\* file map, a file has exactly as many edges as it has resolving imports
\* (an unresolved import adds none), and no step changes the file map, so
\* the unresolved specifiers stay in the imports lists.
C3_EdgesInsideAnalyzedSet == [](GraphInsideFileMap) /\ [][all_files' = all_files]_vars

\* A graph was built from a file that has a resolving and an unresolved
\* relative import: one edge, two specifiers.
C3_Witness ==
    /\ Built
    /\ \E i \in 1..Len(all_files) :
          LET f == all_files[i]
          IN  /\ Len(f.imports) = 2
              /\ \E k \in 1..2 : StartsWithDot(f.imports[k]) /\ Unresolved(f.imports[k], f)
              /\ Len(GraphGet(graph, f.path)) = 1

\* The successful resolutions of the imports of file_node, in source order.
ExpectedEdges(file_node) ==
    LET resolving == SelectSeq(file_node.imports,
                               LAMBDA s : ~Unresolved(s, file_node))
    IN  [k \in 1..Len(resolving) |->
            ResolveRelativeImport(resolving[k], file_node, all_files)]

\* C4: the edge list of every file is the list of the successful
\* resolutions of its imports in source order, duplicates kept, and the file
\* is a key of the graph exactly when that list is not empty.
C4_EdgeListIsResolutionSequence ==
    Built =>
        /\ \A i \in 1..Len(all_files) :
              /\ GraphGet(graph, all_files[i].path) = ExpectedEdges(all_files[i])
              /\ all_files[i].path \in GraphKeys(graph)
                     <=> ExpectedEdges(all_files[i]) # <<>>
        /\ \A i, j \in 1..Len(graph) : graph[i].key = graph[j].key => i = j

\* A built graph in which one file has the same target twice and another
\* file has two different targets in the order of its imports.
C4_Witness ==
    /\ Built
    /\ \E i \in 1..Len(graph) :
          /\ Len(graph[i].deps) >= 2
          /\ graph[i].deps[1] = graph[i].deps[2]
    /\ \E i \in 1..Len(graph) :
          /\ Len(graph[i].deps) >= 2
          /\ StrLess(graph[i].deps[2], graph[i].deps[1])

SelfImport(import_path, file_node) ==
    StartsWithDot(import_path) /\ TargetPath(import_path, file_node) = file_node.path

\* C5: a relative specifier of f that normalizes to the path of f itself
\* gives the self-edge f -> f.
C5_SelfEdgeKept ==
    Built =>
        \A i \in 1..Len(all_files) :
            LET f == all_files[i]
            IN  (\E k \in 1..Len(f.imports) : SelfImport(f.imports[k], f))
                    => f.path \in Range(GraphGet(graph, f.path))

\* A built graph for a file of a sub-directory that imports itself.
C5_Witness ==
    /\ Built
    /\ \E i \in 1..Len(all_files) :
          LET f == all_files[i]
          IN  /\ Len(PurePath(f.path).parts) > 1
              /\ \E k \in 1..Len(f.imports) : SelfImport(f.imports[k], f)
              /\ f.path \in Range(GraphGet(graph, f.path))

-----------------------------------------------------------------------------
(* Properties of _resolve_relative_import *)

\* The suffixes in the order the probes are stated to have.
ProbeSuffixes ==
    <<<<".", "p", "y">>, <<".", "j", "s">>, <<".", "t", "s">>, <<".", "j", "s", "x">>, <<".", "t", "s", "x">>,
      <<"/", "_", "_", "i", "n", "i", "t", "_", "_", ".", "p", "y">>,
      <<"/", "i", "n", "d", "e", "x", ".", "j", "s">>,
      <<"/", "i", "n", "d", "e", "x", ".", "t", "s">>>>

\* The first of probes that is a key of the file map, None when none is.
RECURSIVE FirstKey(_, _)
FirstKey(probes, i) ==
    IF i > Len(probes) THEN None
    ELSE IF probes[i] \in FileKeys(all_files) THEN probes[i]
    ELSE FirstKey(probes, i + 1)

CalledTarget ==
    TargetPath(resolve_call.import_path, FileNode(resolve_call.current_file, <<>>))

\* C2 as stated: the result is the first key among the normalized path and
\* the normalized path with each suffix appended, in that order.
C2_FirstProbeAsStated ==
    resolve_call.called =>
        resolve_call.result =
            FirstKey(<<CalledTarget>>
                         \o [k \in 1..Len(ProbeSuffixes) |-> CalledTarget \o ProbeSuffixes[k]],
                     1)

\* C2, amended: the result is the first key among the normalized path, then
\* the normalized path and the normalized path with each suffix appended,
\* each of these with every backslash replaced by '/'.
C2_FirstProbeWins ==
    resolve_call.called =>
        resolve_call.result =
            FirstKey(<<CalledTarget, ReplaceBackslash(CalledTarget)>>
                         \o [k \in 1..Len(ProbeSuffixes) |->
                                ReplaceBackslash(CalledTarget \o ProbeSuffixes[k])],
                     1)

\* "./x" was resolved from d/m.py while d/x.py, d/x.js and d/x/index.js all
\* exist, and the result is d/x.py.
C2_Witness ==
    /\ resolve_call.called
    /\ resolve_call.import_path = <<".", "/", "x">>
    /\ resolve_call.current_file = OriginPath
    /\ {<<"d", "/", "x", ".", "p", "y">>, <<"d", "/", "x", ".", "j", "s">>, <<"d", "/", "x", "/", "i", "n", "d", "e", "x", ".", "j", "s">>} \subseteq FileKeys(all_files)
    /\ resolve_call.result = <<"d", "/", "x", ".", "p", "y">>

-----------------------------------------------------------------------------
(* Properties of the graph and the cycles of mock_file_nodes *)

\* The positions <<i, j>> of the edges of g, and the edges as pairs.
EdgePositions(g) ==
    UNION {{<<i, j>> : j \in 1..Len(g[i].deps)} : i \in 1..Len(g)}

Edges(g) == {<<g[p[1]].key, g[p[1]].deps[p[2]]>> : p \in EdgePositions(g)}

\* C6: for mock_file_nodes the built graph has exactly the five edges
\* main->user, main->auth, user->helpers, user->auth, auth->user, helpers
\* has no key, and find_circular_dependencies returns one cycle, {auth, user}.
C6_MockFileNodesGraphAndCycle ==
    all_files = MockFileNodes =>
        /\ Built =>
              /\ Edges(graph) = {<<MainPy, UserServicePy>>, <<MainPy, AuthServicePy>>,
                                 <<UserServicePy, HelpersPy>>,
                                 <<UserServicePy, AuthServicePy>>,
                                 <<AuthServicePy, UserServicePy>>}
              /\ Cardinality(EdgePositions(graph)) = Cardinality(Edges(graph))
              /\ HelpersPy \notin GraphKeys(graph)
        /\ pc = "done" =>
              /\ Len(cycles) = 1
              /\ cycles[1] = <<AuthServicePy, UserServicePy>>

\* The analysis of mock_file_nodes has returned its cycle.
C6_Witness ==
    /\ all_files = MockFileNodes
    /\ pc = "done"
    /\ Len(cycles) = 1
    /\ UserServicePy \in visited /\ AuthServicePy \in visited /\ MainPy \in visited

-----------------------------------------------------------------------------
(* Properties of analyze_dependencies *)

\* The analysis as analyze_dependencies returned it, and as the pipeline ends with it.
Analyzed == pc \in {"analyzed", "done"}

\* The number of edges of the graph that end in path.
InDegree(path) ==
    Cardinality({p \in EdgePositions(graph) : graph[p[1]].deps[p[2]] = path})

OutDegree(path) == Len(GraphGet(graph, path))

\* ranking is in descending order of its field count, equal counts in ascending path order.
RankedByCountThenPath(ranking, count) ==
    \A i, j \in 1..Len(ranking) :
        i < j => \/ ranking[i][count] > ranking[j][count]
                 \/ /\ ranking[i][count] = ranking[j][count]
                    /\ StrLess(ranking[i].path, ranking[j].path)

PathsOf(ranking) == {ranking[i].path : i \in 1..Len(ranking)}

\* C7: most_imported and most_importing list the files that are an end of an
\* edge, in descending order of their count, equal counts in ascending order
\* of the path, cut to the first TopN.
C7_RankingByCountThenPath ==
    Analyzed =>
        /\ RankedByCountThenPath(dep_analysis.most_imported, ByImportedByCount)
        /\ RankedByCountThenPath(dep_analysis.most_importing, ByImportsCount)
        /\ Len(dep_analysis.most_imported) <= TopN
        /\ Len(dep_analysis.most_importing) <= TopN
        /\ Cardinality(FilesInGraph(graph)) <= TopN =>
              /\ PathsOf(dep_analysis.most_imported) = FilesInGraph(graph)
              /\ PathsOf(dep_analysis.most_importing) = FilesInGraph(graph)

\* C8: isolated_files holds, once each, exactly the keys of the file map
\* that have no outgoing edge and are the target of no edge.
C8_IsolatedFiles ==
    Analyzed =>
        /\ Range(dep_analysis.isolated_files) =
               {f \in FileKeys(all_files) :
                   f \notin GraphKeys(graph) /\ ~\E e \in Edges(graph) : e[2] = f}
        /\ Cardinality(Range(dep_analysis.isolated_files)) = Len(dep_analysis.isolated_files)

\* The analysis lists as isolated a file all of whose imports are unresolved,
\* beside a file that is not isolated only because it is imported.
C8_Witness ==
    /\ Analyzed
    /\ \E i \in 1..Len(all_files) :
          /\ all_files[i].imports # <<>>
          /\ all_files[i].path \in Range(dep_analysis.isolated_files)
    /\ \E i \in 1..Len(all_files) :
          /\ all_files[i].path \notin GraphKeys(graph)
          /\ all_files[i].path \notin Range(dep_analysis.isolated_files)

RECURSIVE SumOutDegree(_)
SumOutDegree(S) ==
    IF S = {} THEN 0
    ELSE LET x == CHOOSE y \in S : TRUE IN OutDegree(x) + SumOutDegree(S \ {x})

RECURSIVE SumInDegree(_)
SumInDegree(S) ==
    IF S = {} THEN 0
    ELSE LET x == CHOOSE y \in S : TRUE IN InDegree(x) + SumInDegree(S \ {x})

CountsMatchGraph(ranking) ==
    \A i \in 1..Len(ranking) :
        /\ ranking[i].imports_count = OutDegree(ranking[i].path)
        /\ ranking[i].imported_by_count = InDegree(ranking[i].path)

\* C9: in every entry of most_imported and most_importing, imports_count is
\* the length of the file's edge list and imported_by_count the number of
\* edges that end in the file, duplicates and self-edges counted; summed
\* over the files of the map the two counts are equal.
C9_CountsAreDegrees ==
    Analyzed =>
        /\ CountsMatchGraph(dep_analysis.most_imported)
        /\ CountsMatchGraph(dep_analysis.most_importing)
        /\ SumOutDegree(FileKeys(all_files)) = SumInDegree(FileKeys(all_files))
        /\ Cardinality(FilesInGraph(graph)) <= TopN =>
              SumOutDegree(PathsOf(dep_analysis.most_imported))
                  = SumInDegree(PathsOf(dep_analysis.most_imported))

\* The analysis has an entry for a file that is imported twice by one file
\* and for a file that imports itself.
C9_Witness ==
    /\ Analyzed
    /\ \E i \in 1..Len(dep_analysis.most_imported) :
          LET e == dep_analysis.most_imported[i]
          IN  /\ e.imported_by_count >= 2
              /\ \E k \in 1..Len(graph) :
                    Cardinality({p \in EdgePositions(graph) :
                                    p[1] = k /\ graph[k].deps[p[2]] = e.path}) >= 2
    /\ \E i \in 1..Len(dep_analysis.most_imported) :
          <<dep_analysis.most_imported[i].path, dep_analysis.most_imported[i].path>>
              \in Edges(graph)

-----------------------------------------------------------------------------
(* Properties of find_circular_dependencies *)

\* The files reachable from frontier by one edge or more, added to seen.
RECURSIVE ReachableFrom(_, _)
ReachableFrom(frontier, seen) ==
    LET next == {e[2] : e \in {d \in Edges(graph) : d[1] \in frontier}} \ seen
    IN  IF next = {} THEN seen ELSE ReachableFrom(next, seen \cup next)

Reach(f) == ReachableFrom({f}, {})

\* f lies on a directed cycle.
OnCycle(f) == f \in Reach(f)

\* The strongly connected component of a file that lies on a cycle.
Component(f) == {h \in Reach(f) : f \in Reach(h)}

Reported(f) == \E k \in 1..Len(cycles) : f \in Range(cycles[k])

-----------------------------------------------------------------------------
(* The list returned by find_circular_dependencies *)

\* The members of a cycle are in ascending order, none twice.
Ascending(cycle) ==
    \A i \in 1..(Len(cycle) - 1) : StrLess(cycle[i], cycle[i + 1])

\* C11: each returned cycle lists its member paths in ascending order
\* without repetition, and no two returned cycles have the same member set.
C11_CyclesDeduplicatedByMemberSet ==
    pc = "done" =>
        /\ \A k \in 1..Len(cycles) : cycles[k] # <<>> /\ Ascending(cycles[k])
        /\ \A k, l \in 1..Len(cycles) :
              Range(cycles[k]) = Range(cycles[l]) => k = l

\* The traversal has returned for a graph whose first node t imports f only
\* and f imports t twice: the cycle of t and f is found from f twice, with
\* the stack <<t, f>>, and is returned once.
C11_Witness ==
    /\ pc = "done"
    /\ \E t, f \in FileKeys(all_files) :
          /\ t # f
          /\ nodes # <<>>
          /\ nodes[1] = t
          /\ GraphGet(graph, t) = <<f>>
          /\ \E i, j \in 1..Len(GraphGet(graph, f)) :
                i < j /\ GraphGet(graph, f)[i] = t /\ GraphGet(graph, f)[j] = t
          /\ cycles = <<SortedStrs(<<f, t>>, 1)>>

-----------------------------------------------------------------------------
(* build_file_tree (analysis_service.py) *)

\* The FolderNode objects build_file_tree creates live in a heap, in creation
\* order; a reference is an index of the heap and the root is object 1.  A
\* child is a reference to a FolderNode (folder > 0) or a FileNode
\* (folder = 0).
FolderNode(path) == [path |-> path, children |-> <<>>]

FolderChild(ref) == [folder |-> ref, file |-> FileNode(<<>>, <<>>)]

FileChild(file_node) == [folder |-> 0, file |-> file_node]

\* folder_map[key]
RECURSIVE FolderMapGet(_, _)
FolderMapGet(folder_map, key) ==
    IF folder_map[Len(folder_map)].key = key THEN folder_map[Len(folder_map)].ref
    ELSE FolderMapGet(SubSeq(folder_map, 1, Len(folder_map) - 1), key)

\* A folder_map test that never finds the folder.
FolderMapHasNever(folder_map, key) == FALSE

\* current_path_str in folder_map
FolderMapHas(folder_map, key) == \E i \in 1..Len(folder_map) : folder_map[i].key = key

\* file_nodes[file_path_str]
FileNodeOf(file_nodes, key) ==
    file_nodes[CHOOSE i \in 1..Len(file_nodes) : file_nodes[i].path = key]

\* sorted_paths that keeps the insertion order of the map.
SortedPathsUnsorted(file_nodes) == [i \in 1..Len(file_nodes) |-> file_nodes[i].path]

\* sorted_paths = sorted(file_nodes.keys())
SortedPaths(file_nodes) ==
    SortedStrs([i \in 1..Len(file_nodes) |-> file_nodes[i].path], 1)

\* for part in parts[:-1], from position i on: the folder of every prefix of
\* the path is looked up in folder_map or created under the current parent.
RECURSIVE WalkFolders(_, _, _, _, _, _)
WalkFolders(heap, folder_map, parts, i, current_parent_folder_node, current_path_str) ==
    IF i > Len(parts) - 1
    THEN [heap |-> heap, folder_map |-> folder_map, parent |-> current_parent_folder_node]
    ELSE LET path == IF current_path_str = <<".">> THEN parts[i]
                     ELSE current_path_str \o <<"/">> \o parts[i]
         IN  IF ~FolderMapHas(folder_map, path)
             THEN LET new_folder == Len(heap) + 1
                      attached == [heap EXCEPT ![current_parent_folder_node].children =
                                       Append(@, FolderChild(new_folder))]
                  IN  WalkFolders(Append(attached, FolderNode(path)),
                                  Append(folder_map, [key |-> path, ref |-> new_folder]),
                                  parts, i + 1, new_folder, path)
             ELSE WalkFolders(heap, folder_map, parts, i + 1,
                              FolderMapGet(folder_map, path), path)

\* for file_path_str in sorted_paths, from position i on.
RECURSIVE PlaceFiles(_, _, _, _, _)
PlaceFiles(file_nodes, sorted_paths, i, heap, folder_map) ==
    IF i > Len(sorted_paths) THEN heap
    ELSE LET file_node == FileNodeOf(file_nodes, sorted_paths[i])
             walked == WalkFolders(heap, folder_map, SplitSlash(sorted_paths[i]), 1,
                                   1, <<".">>)
         IN  PlaceFiles(file_nodes, sorted_paths, i + 1,
                        [walked.heap EXCEPT ![walked.parent].children =
                             Append(@, FileChild(file_node))],
                        walked.folder_map)

\* build_file_tree(repo_path, file_nodes): the heap whose object 1 is root.
BuildFileTree(file_nodes) ==
    PlaceFiles(file_nodes, SortedPaths(file_nodes), 1,
               <<FolderNode(<<".">>)>>, <<[key |-> <<".">>, ref |-> 1]>>)

-----------------------------------------------------------------------------
(* Calls of build_file_tree on file maps with folders *)

TreePaths ==
    <<<<"a", ".", "p", "y">>,
      <<"d", ".", "p", "y">>,
      <<"d", "/", "b", ".", "p", "y">>,
      <<"d", "/", "e", "/", "c", ".", "p", "y">>,
      <<"d", "/", "e", "/", "f", ".", "p", "y">>>>

\* The maps with a subset of TreePaths as keys, in every insertion order.
TreeRepositories ==
    UNION {Orderings({FileNode(sub[k], <<>>) : k \in 1..Len(sub)}) :
              sub \in SubLists(TreePaths)}

InitTree ==
    /\ pc = "parsed"
    /\ all_files \in TreeRepositories
    /\ graph = <<>>
    /\ dep_analysis = NoAnalysis
    /\ visited = {}
    /\ recursion_stack = <<>>
    /\ all_cycles = {}
    /\ nodes = <<>>
    /\ node_index = 1
    /\ frames = <<>>
    /\ cycles = <<>>
    /\ resolve_call = NoCall
    /\ TreeIdle
    /\ ParseIdle
    /\ RequestsIdle
    /\ PythonIdle
    /\ FlowIdle

\* hierarchy = build_file_tree(repo_path, file_nodes), called with a map that
\* has the entries of all_files in some insertion order.
BuildFileTreeCall ==
    /\ \E file_nodes \in Orderings(Range(all_files)) :
          /\ all_files' = file_nodes
          /\ hierarchy' = BuildFileTree(file_nodes)
    /\ UNCHANGED <<pc, graph, dep_analysis, dfs_vars, resolve_call, parse_vars, request_vars,
                   python_vars, flow_vars>>

NextTree == BuildFileTreeCall

SpecTree == InitTree /\ [][NextTree]_vars

-----------------------------------------------------------------------------
(* Properties of build_file_tree *)

TreeBuilt == hierarchy # NoTree

\* The path of the folder that holds path: the path without its last
\* segment, "." for a path of one segment.
ParentPath(path) ==
    LET parts == SplitSlash(path)
    IN  IF Len(parts) = 1 THEN <<".">>
        ELSE JoinSlash(SubSeq(parts, 1, Len(parts) - 1))

\* The positions <<folder object, child index>> of the tree that hold a
\* child satisfying the test.
FilePositions(path) ==
    {<<r, c>> \in (1..Len(hierarchy)) \X (1..Len(all_files) + Len(hierarchy)) :
        /\ c <= Len(hierarchy[r].children)
        /\ hierarchy[r].children[c].folder = 0
        /\ hierarchy[r].children[c].file.path = path}

FolderPositions(ref) ==
    {<<r, c>> \in (1..Len(hierarchy)) \X (1..Len(all_files) + Len(hierarchy)) :
        /\ c <= Len(hierarchy[r].children)
        /\ hierarchy[r].children[c].folder = ref}

\* path names a folder above some file of the map.
ProperPrefixOfFile(path) ==
    \E i \in 1..Len(all_files) :
        LET parts == SplitSlash(all_files[i].path)
        IN  \E k \in 1..(Len(parts) - 1) : JoinSlash(SubSeq(parts, 1, k)) = path

\* C12: every file of the map is in exactly one file node, a child of the
\* folder named by its path without the last segment; every folder below
\* the root is a child, exactly once, of the folder named by its own path
\* without the last segment (so the chain of folders leads from the root to
\* the file); no two folder nodes have the same path; and every folder
\* below the root is a proper prefix of the path of some file.
C12_FilesUnderTheirFolderChain ==
    TreeBuilt =>
        /\ hierarchy[1].path = <<".">>
        /\ \A i \in 1..Len(all_files) :
              /\ Cardinality(FilePositions(all_files[i].path)) = 1
              /\ \A pos \in FilePositions(all_files[i].path) :
                    /\ hierarchy[pos[1]].path = ParentPath(all_files[i].path)
                    /\ hierarchy[pos[1]].children[pos[2]].file = all_files[i]
        /\ \A r \in 2..Len(hierarchy) :
              /\ Cardinality(FolderPositions(r)) = 1
              /\ \A pos \in FolderPositions(r) :
                    hierarchy[pos[1]].path = ParentPath(hierarchy[r].path)
              /\ ProperPrefixOfFile(hierarchy[r].path)
        /\ FolderPositions(1) = {}
        /\ \A r, q \in 1..Len(hierarchy) :
              hierarchy[r].path = hierarchy[q].path => r = q

\* A tree is built from a map with two files of one folder two levels down
\* and a file of the folder above: the folders d and d/e exist once and are
\* reused.
C12_Witness ==
    /\ TreeBuilt
    /\ Len(all_files) = 5
    /\ Len(hierarchy) = 3
    /\ hierarchy[3].path = <<"d", "/", "e">>
    /\ Len(hierarchy[3].children) = 2
    /\ Len(hierarchy[2].children) = 2

\* Children of two trees, folder references replaced by the folders' paths.
ChildrenByPath(tree, r) ==
    [c \in 1..Len(tree[r].children) |->
        IF tree[r].children[c].folder = 0
        THEN [folder |-> <<>>, file |-> tree[r].children[c].file]
        ELSE [folder |-> tree[tree[r].children[c].folder].path,
              file |-> tree[r].children[c].file]]

\* The same folder set and the same children in the same order in every
\* folder.
SameTree(t1, t2) ==
    /\ {t1[r].path : r \in 1..Len(t1)} = {t2[r].path : r \in 1..Len(t2)}
    /\ \A r \in 1..Len(t1), q \in 1..Len(t2) :
          t1[r].path = t2[q].path => ChildrenByPath(t1, r) = ChildrenByPath(t2, q)

\* C13: a tree assembled from a map with the same entries, in the same or
\* another insertion order, is structurally identical to the tree assembled
\* before.
C13_TreeIndependentOfInsertionOrder ==
    [][(TreeBuilt /\ Range(all_files') = Range(all_files))
          => (SameTree(hierarchy, hierarchy') /\ hierarchy' = hierarchy)]_vars

\* A tree was assembled from a map of at least three files, one of them in
\* a folder, whose insertion order is not the sorted order.
C13_Witness ==
    /\ TreeBuilt
    /\ Len(all_files) >= 3
    /\ Len(hierarchy) >= 2
    /\ \E i \in 1..(Len(all_files) - 1) : StrLess(all_files[i + 1].path, all_files[i].path)

-----------------------------------------------------------------------------
(* _parse_all_files and _parse_single_file (analysis_service.py),          *)
(* parse_file (manager.py), the parsers' error handling                    *)

\* FileNode with the fields _parse_single_file sets.
ParsedFileNode(path, language, size, elements, imports) ==
    [path |-> path, language |-> language, size |-> size,
     elements |-> elements, imports |-> imports]

\* What parsing a file can meet.  For parse_python_file: "syntax_error"
\* (ast.parse raises SyntaxError), "decode_error" (f.read raises
\* UnicodeDecodeError).  For parse_javascript_file: "no_script" (the parser
\* script does not exist), "nonzero_exit" (CalledProcessError), "not_json"
\* (JSONDecodeError), "not_object" (the output is JSON and no object:
\* result.get raises), "bad_elements" (CodeElement(**el) raises),
\* "bad_imports" (the value of "imports" is no list of str).  For both:
\* "stat_error" (file_path.stat() raises OSError).
PythonOutcomes == {"ok", "syntax_error", "decode_error", "stat_error"}

JavaScriptOutcomes ==
    {"ok", "no_script", "nonzero_exit", "not_json", "not_object", "bad_elements",
     "bad_imports", "stat_error"}

\* The value parse_python_file returns.
ParsePythonFile(file) ==
    IF file.outcome \in {"syntax_error", "decode_error"}
    THEN [elements |-> <<>>, imports |-> <<>>, imports_is_list |-> TRUE]
    ELSE [elements |-> file.elements, imports |-> file.imports, imports_is_list |-> TRUE]

\* The value parse_javascript_file returns.
ParseJavascriptFile(file) ==
    IF file.outcome \in {"no_script", "nonzero_exit", "not_json", "not_object", "bad_elements"}
    THEN [elements |-> <<>>, imports |-> <<>>, imports_is_list |-> TRUE]
    ELSE IF file.outcome = "bad_imports"
    THEN [elements |-> file.elements, imports |-> <<>>, imports_is_list |-> FALSE]
    ELSE [elements |-> file.elements, imports |-> file.imports, imports_is_list |-> TRUE]

\* The value parse_file returns.
ParseFile(file, language) ==
    IF language = "python" THEN ParsePythonFile(file)
    ELSE IF language \in {"javascript", "typescript"} THEN ParseJavascriptFile(file)
    ELSE [elements |-> <<>>, imports |-> <<>>, imports_is_list |-> TRUE]

\* The values a task of asyncio.gather has: none yet, None, a FileNode.
NoFileNode == ParsedFileNode(<<>>, "unknown", 0, <<>>, <<>>)
Pending == [kind |-> "pending", node |-> NoFileNode]
NoneResult == [kind |-> "None", node |-> NoFileNode]
FileNodeResult(node) == [kind |-> "FileNode", node |-> node]

\* The value _parse_single_file returns: FileNode(...) raises when imports is
\* no list of str, file_path.stat() can raise, and every exception gives None.
ParseSingleFile(file, language) ==
    LET parsed == ParseFile(file, language)
    IN  IF file.outcome = "stat_error" \/ ~parsed.imports_is_list
        THEN NoneResult
        ELSE FileNodeResult(ParsedFileNode(ReplaceBackslash(file.relative), language,
                                           file.size, parsed.elements, parsed.imports))

\* asyncio.gather that lists the results in the order of completion.
GatherStoreCompletionOrder(res, i, result) ==
    [res EXCEPT ![CHOOSE k \in 1..Len(res) :
                     res[k] = Pending /\ \A j \in 1..(k - 1) : res[j] # Pending] = result]

\* asyncio.gather: the result of a task is at the position of the task.
GatherStore(res, i, result) == [res EXCEPT ![i] = result]

\* file_nodes[result.path] = result
DictSet(dict, node) ==
    IF \E k \in 1..Len(dict) : dict[k].path = node.path
    THEN [k \in 1..Len(dict) |-> IF dict[k].path = node.path THEN node ELSE dict[k]]
    ELSE Append(dict, node)

\* The worker threads of the default executor asyncio.to_thread uses.
MaxWorkers == 2

\* A worker that takes work whatever the number of busy workers.
WorkerFreeAlways(task_states) == TRUE

\* Fewer than max_workers threads of the executor are running work.
WorkerFree(task_states) ==
    Cardinality({i \in 1..Len(task_states) : task_states[i] = "running"}) < MaxWorkers

-----------------------------------------------------------------------------
(* Runs of _parse_all_files *)

\* A file of the batch: the str of its path relative to the repository (with
\* "\" where the platform separates with it), its size, what a parser
\* extracts from it when nothing fails, and what parsing it meets.
BatchFile(relative, size, elements, imports, outcome) ==
    [relative |-> relative, size |-> size, elements |-> elements,
     imports |-> imports, outcome |-> outcome]

BatchPaths ==
    <<<<"a", ".", "p", "y">>,
      <<"b", ".", "j", "s">>,
      <<"d", "\\", "c", ".", "t", "s">>,
      <<"e", ".", "j", "s", "x">>>>

\* The elements and imports found in every file that parses.
BatchElements == <<[type |-> "function", name |-> <<"f">>]>>

BatchImports == <<<<".", "/", "b">>>>

\* The files of a batch that meet a failure are at most MaxFailures.
MaxFailures == 1

OutcomesOf(relative) ==
    IF GetLanguageFromExtension(Suffix(relative)) = "python" THEN PythonOutcomes
    ELSE JavaScriptOutcomes

Batches ==
    {[i \in 1..Len(BatchPaths) |->
         BatchFile(BatchPaths[i], i, BatchElements, BatchImports, outcome[i])] :
       outcome \in {o \in [1..Len(BatchPaths) -> PythonOutcomes \cup JavaScriptOutcomes] :
                       /\ \A i \in 1..Len(BatchPaths) : o[i] \in OutcomesOf(BatchPaths[i])
                       /\ Cardinality({i \in 1..Len(BatchPaths) : o[i] # "ok"}) <= MaxFailures}}

\* _parse_all_files up to asyncio.gather(*tasks): one coroutine per file.
InitParse ==
    /\ pc = "parsed"
    /\ all_files = <<>>
    /\ graph = <<>>
    /\ dep_analysis = NoAnalysis
    /\ visited = {}
    /\ recursion_stack = <<>>
    /\ all_cycles = {}
    /\ nodes = <<>>
    /\ node_index = 1
    /\ frames = <<>>
    /\ cycles = <<>>
    /\ resolve_call = NoCall
    /\ TreeIdle
    /\ RequestsIdle
    /\ PythonIdle
    /\ FlowIdle
    /\ parse_pc = "gather"
    /\ file_paths \in Batches
    /\ tasks = [i \in 1..Len(file_paths) |-> "created"]
    /\ executor_queue = <<>>
    /\ results = [i \in 1..Len(file_paths) |-> Pending]
    /\ result_index = 1
    /\ parsed_file_nodes = <<>>

outside_parse == <<pipeline_vars, resolve_call, tree_vars, request_vars, python_vars, flow_vars>>

Language(i) == GetLanguageFromExtension(Suffix(file_paths[i].relative))

\* The event loop starts the coroutines in the order of the tasks.  A
\* coroutine runs to its first suspension: asyncio.to_thread submits the
\* parsing to the executor; parse_javascript_file returns at once when the
\* parser script does not exist, and the coroutine runs to its end.
TaskStart ==
    /\ parse_pc = "gather"
    /\ \E i \in 1..Len(tasks) :
          /\ tasks[i] = "created"
          /\ \A j \in 1..(i - 1) : tasks[j] # "created"
          /\ IF Language(i) \in {"javascript", "typescript"}
                /\ file_paths[i].outcome = "no_script"
             THEN /\ tasks' = [tasks EXCEPT ![i] = "done"]
                  /\ results' = GatherStore(results, i, ParseSingleFile(file_paths[i], Language(i)))
                  /\ UNCHANGED executor_queue
             ELSE /\ tasks' = [tasks EXCEPT ![i] = "queued"]
                  /\ executor_queue' = Append(executor_queue, i)
                  /\ UNCHANGED results
    /\ UNCHANGED <<parse_pc, file_paths, result_index, parsed_file_nodes, outside_parse>>

\* A free worker thread takes the oldest submitted work: parse_python_file,
\* or subprocess.run of the external parser.
WorkerStart ==
    /\ parse_pc = "gather"
    /\ executor_queue # <<>>
    /\ WorkerFree(tasks)
    /\ tasks' = [tasks EXCEPT ![Head(executor_queue)] = "running"]
    /\ executor_queue' = Tail(executor_queue)
    /\ UNCHANGED <<parse_pc, file_paths, results, result_index, parsed_file_nodes, outside_parse>>

\* The work of a thread ends (with a value or an exception).
WorkerFinish ==
    /\ parse_pc = "gather"
    /\ \E i \in 1..Len(tasks) :
          /\ tasks[i] = "running"
          /\ tasks' = [tasks EXCEPT ![i] = "finished"]
    /\ UNCHANGED <<parse_pc, file_paths, executor_queue, results, result_index,
                   parsed_file_nodes, outside_parse>>

\* The coroutine resumes after its await and runs to its end: the rest of
\* the parser, FileNode(...) or the except clause of _parse_single_file.
TaskResume ==
    /\ parse_pc = "gather"
    /\ \E i \in 1..Len(tasks) :
          /\ tasks[i] = "finished"
          /\ tasks' = [tasks EXCEPT ![i] = "done"]
          /\ results' = GatherStore(results, i, ParseSingleFile(file_paths[i], Language(i)))
    /\ UNCHANGED <<parse_pc, file_paths, executor_queue, result_index, parsed_file_nodes,
                   outside_parse>>

\* results = await asyncio.gather(*tasks) returns when every task is done.
GatherReturn ==
    /\ parse_pc = "gather"
    /\ \A i \in 1..Len(tasks) : tasks[i] = "done"
    /\ parse_pc' = "fanin"
    /\ UNCHANGED <<file_paths, tasks, executor_queue, results, result_index,
                   parsed_file_nodes, outside_parse>>

\* for result in results: if result: file_nodes[result.path] = result
FanIn ==
    /\ parse_pc = "fanin"
    /\ result_index <= Len(results)
    /\ parsed_file_nodes' =
          IF results[result_index].kind = "FileNode"
          THEN DictSet(parsed_file_nodes, results[result_index].node)
          ELSE parsed_file_nodes
    /\ result_index' = result_index + 1
    /\ UNCHANGED <<parse_pc, file_paths, tasks, executor_queue, results, outside_parse>>

\* return file_nodes
ReturnFileNodes ==
    /\ parse_pc = "fanin"
    /\ result_index > Len(results)
    /\ parse_pc' = "returned"
    /\ UNCHANGED <<file_paths, tasks, executor_queue, results, result_index,
                   parsed_file_nodes, outside_parse>>

NextParse ==
    \/ TaskStart
    \/ WorkerStart
    \/ WorkerFinish
    \/ TaskResume
    \/ GatherReturn
    \/ FanIn
    \/ ReturnFileNodes

SpecParse == InitParse /\ [][NextParse]_vars

-----------------------------------------------------------------------------
(* Properties of _parse_all_files *)

\* The entry of the returned map for the file at position i, if any.
EntriesOf(i) ==
    {k \in 1..Len(parsed_file_nodes) :
        parsed_file_nodes[k].path = ReplaceBackslash(file_paths[i].relative)}

\* The FileNode of file i in a run in which nothing fails.
NodeWithoutFailure(i) ==
    ParsedFileNode(ReplaceBackslash(file_paths[i].relative), Language(i),
                   file_paths[i].size, file_paths[i].elements, file_paths[i].imports)

\* C14: when the batch has completed, every file that met no failure has the
\* entry of a run without failures, and every file that met a failure is in
\* the map with empty elements and empty imports.
C14_FailingFileKeptWithEmptyResult ==
    parse_pc = "returned" =>
        \A i \in 1..Len(file_paths) :
            /\ EntriesOf(i) # {}
            /\ \A k \in EntriesOf(i) :
                  IF file_paths[i].outcome = "ok"
                  THEN parsed_file_nodes[k] = NodeWithoutFailure(i)
                  ELSE /\ parsed_file_nodes[k].elements = <<>>
                       /\ parsed_file_nodes[k].imports = <<>>

\* The external parser processes running at the same time.
RunningSubprocesses ==
    {i \in 1..Len(tasks) :
        tasks[i] = "running" /\ Language(i) \in {"javascript", "typescript"}}

RECURSIVE MapInTaskOrder(_)
MapInTaskOrder(i) ==
    IF i = 0 THEN <<>>
    ELSE LET result == ParseSingleFile(file_paths[i], Language(i))
         IN  IF result.kind = "FileNode" THEN Append(MapInTaskOrder(i - 1), result.node)
             ELSE MapInTaskOrder(i - 1)

\* A step that changes the map is a step of the loop over the results of
\* gather, taken when every task is done; it adds one entry, under a key
\* the map does not have yet, which is the slash-normalized relative path
\* of the file whose task gave the result.
WriteAfterParse ==
    parsed_file_nodes' # parsed_file_nodes =>
        /\ parse_pc = "fanin"
        /\ \A i \in 1..Len(tasks) : tasks[i] = "done"
        /\ Len(parsed_file_nodes') = Len(parsed_file_nodes) + 1
        /\ SubSeq(parsed_file_nodes', 1, Len(parsed_file_nodes)) = parsed_file_nodes
        /\ \A k \in 1..Len(parsed_file_nodes) :
              parsed_file_nodes[k].path # parsed_file_nodes'[Len(parsed_file_nodes')].path
        /\ parsed_file_nodes'[Len(parsed_file_nodes')].path =
              ReplaceBackslash(file_paths[result_index].relative)

-----------------------------------------------------------------------------
(* clone_repo, cleanup_repo (github_cloner.py) and the endpoints (main.py) *)

\* An exception in flight: HTTPException carries status_code and detail.
HTTPException(status_code, detail) ==
    [type |-> "HTTPException", status_code |-> status_code, detail |-> detail]

OtherException(type) == [type |-> type, status_code |-> 0, detail |-> ""]

NoException == OtherException("none")

\* The response of a request: none yet, or status, detail and body.
NoResponse == [status_code |-> 0, detail |-> "", body |-> "none"]

Response(status_code, detail, body) ==
    [status_code |-> status_code, detail |-> detail, body |-> body]

HTTP_200_OK == 200
HTTP_400_BAD_REQUEST == 400
HTTP_500_INTERNAL_SERVER_ERROR == 500

\* The attributes of git.exc.GitCommandError besides those of Exception: it
\* is a CommandError(command, status, stderr, stdout), not an OSError.
GitCommandErrorAttributes == {"command", "status", "stderr", "stdout"}

\* The exception that leaves the except clauses of clone_repo.  The detail of
\* the 400 is formatted from e.strerror: the lookup of an attribute the
\* exception does not have raises AttributeError inside the except clause,
\* and that exception leaves clone_repo instead.
CloneFailure(clone_outcome) ==
    IF clone_outcome = "GitCommandError"
    THEN IF "strerror" \in GitCommandErrorAttributes
         THEN HTTPException(HTTP_400_BAD_REQUEST, "Failed to clone repository")
         ELSE OtherException("AttributeError")
    ELSE HTTPException(HTTP_500_INTERNAL_SERVER_ERROR,
                       "An unexpected error occurred during the cloning process.")

\* The endpoints: except HTTPException: raise; except Exception: raise
\* HTTPException(500); the framework answers an HTTPException with its
\* status code and detail.
EndpointError(exception) ==
    IF exception.type = "HTTPException"
    THEN Response(exception.status_code, exception.detail, "none")
    ELSE Response(HTTP_500_INTERNAL_SERVER_ERROR, "An unexpected server error occurred", "none")

\* The endpoints on success: the analysis, or its dependencies part.
EndpointResult(endpoint) ==
    Response(HTTP_200_OK, "",
             IF endpoint = "/analyze" THEN "AnalysisResponse"
             ELSE IF endpoint = "/analyze/graph" THEN "GraphAnalysisResponse"
             ELSE "DependencyAnalysis")

Endpoints == {"/analyze", "/analyze/graph", "/analyze/dependencies"}

\* The requests received and the values uuid.uuid4() returns.
MaxRequests == 2
MaxRepoIds == 2

Request(endpoint, position, repo_path, clone_outcome, background_tasks, response) ==
    [endpoint |-> endpoint, pc |-> position, repo_path |-> repo_path,
     clone_outcome |-> clone_outcome, background_tasks |-> background_tasks,
     response |-> response]

InitRequests ==
    /\ pc = "parsed"
    /\ all_files = <<>>
    /\ graph = <<>>
    /\ dep_analysis = NoAnalysis
    /\ visited = {}
    /\ recursion_stack = <<>>
    /\ all_cycles = {}
    /\ nodes = <<>>
    /\ node_index = 1
    /\ frames = <<>>
    /\ cycles = <<>>
    /\ resolve_call = NoCall
    /\ TreeIdle
    /\ ParseIdle
    /\ RequestsIdle
    /\ PythonIdle
    /\ FlowIdle

outside_requests == <<pipeline_vars, resolve_call, tree_vars, parse_vars, python_vars, flow_vars>>

\* active_clones.remove(repo_path_str) when it is a member
Discard(clones, repo_path) == clones \ {repo_path}

-----------------------------------------------------------------------------
(* The steps of a request, from one suspension of its coroutine to the next *)

\* A request arrives; the endpoint calls the service, which calls
\* clone_repo: repo_id = uuid4(); when repo_path exists the HTTPException
\* 500 is raised and the endpoint answers; otherwise the path is added to
\* active_clones and the coroutine awaits the thread of git clone.
ReceiveRequest ==
    /\ Len(requests) < MaxRequests
    /\ \E endpoint \in Endpoints, repo_id \in 1..MaxRepoIds :
          IF repo_id \in repo_dirs
          THEN /\ requests' = Append(requests,
                      Request(endpoint, "finished", repo_id, "collision", <<>>,
                              EndpointError(HTTPException(HTTP_500_INTERNAL_SERVER_ERROR,
                                                          "Temporary directory collision"))))
               /\ UNCHANGED active_clones
          ELSE /\ requests' = Append(requests,
                      Request(endpoint, "cloning", repo_id, "none", <<>>, NoResponse))
               /\ active_clones' = active_clones \cup {repo_id}
    /\ UNCHANGED <<repo_dirs, outside_requests>>

\* git clone succeeds (the destination did not exist): clone_repo schedules
\* cleanup_repo as a background task and returns; the service goes on to
\* its first await.
CloneSucceeds ==
    /\ \E r \in 1..Len(requests) :
          /\ requests[r].pc = "cloning"
          /\ requests[r].repo_path \notin repo_dirs
          /\ repo_dirs' = repo_dirs \cup {requests[r].repo_path}
          /\ requests' = [requests EXCEPT ![r].pc = "analyzing",
                                          ![r].clone_outcome = "ok",
                                          ![r].background_tasks =
                                              Append(@, requests[r].repo_path)]
    /\ UNCHANGED <<active_clones, outside_requests>>

\* cleanup_repo up to its await, or to its end: when repo_path does not
\* exist the path is removed from active_clones and cleanup_repo returns.
CleanupReturnsAtOnce(r) == requests[r].repo_path \notin repo_dirs

\* git clone raises GitCommandError or another exception, with or without
\* a partial clone left: the except clause awaits cleanup_repo, and then
\* raises; the exception reaches the endpoint, which answers.
CloneFails ==
    /\ \E r \in 1..Len(requests), clone_outcome \in {"GitCommandError", "Exception"},
          partial \in BOOLEAN :
          /\ requests[r].pc = "cloning"
          /\ repo_dirs' = IF partial THEN repo_dirs \cup {requests[r].repo_path} ELSE repo_dirs
          /\ IF requests[r].repo_path \notin repo_dirs'
             THEN /\ active_clones' = Discard(active_clones, requests[r].repo_path)
                  /\ requests' = [requests EXCEPT
                                     ![r].pc = "finished",
                                     ![r].clone_outcome = clone_outcome,
                                     ![r].response = EndpointError(CloneFailure(clone_outcome))]
             ELSE /\ requests' = [requests EXCEPT ![r].pc = "failed_rmtree",
                                                  ![r].clone_outcome = clone_outcome]
                  /\ UNCHANGED active_clones
    /\ UNCHANGED outside_requests

\* shutil.rmtree of cleanup_repo ends, with the directory removed or with
\* OSError and the directory left; finally the path is removed from
\* active_clones.
RmtreeEnds(r, removed) ==
    /\ repo_dirs' = IF removed THEN repo_dirs \ {requests[r].repo_path} ELSE repo_dirs
    /\ active_clones' = Discard(active_clones, requests[r].repo_path)

\* The cleanup_repo awaited by the except clause ends: clone_repo raises and
\* the endpoint answers.
FailedCloneCleaned ==
    /\ \E r \in 1..Len(requests), removed \in BOOLEAN :
          /\ requests[r].pc = "failed_rmtree"
          /\ RmtreeEnds(r, removed)
          /\ requests' = [requests EXCEPT
                             ![r].pc = "finished",
                             ![r].response = EndpointError(CloneFailure(requests[r].clone_outcome))]
    /\ UNCHANGED outside_requests

\* The analysis returns and the endpoint answers 200: the background tasks
\* of the request run after the response.
AnalysisReturns ==
    /\ \E r \in 1..Len(requests) :
          /\ requests[r].pc = "analyzing"
          /\ requests' = [requests EXCEPT ![r].pc = "responded",
                                          ![r].response = EndpointResult(requests[r].endpoint)]
    /\ UNCHANGED <<active_clones, repo_dirs, outside_requests>>

\* A step of the analysis raises (RecursionError of _find_cycles_dfs on a
\* long chain of imports, OSError of file_path.stat(), an error of the
\* layout): the endpoint answers 500 from its except clause, and the
\* background tasks, scheduled for the response the endpoint would have
\* returned, do not run.
AnalysisRaises ==
    /\ \E r \in 1..Len(requests) :
          /\ requests[r].pc = "analyzing"
          /\ requests' = [requests EXCEPT
                             ![r].pc = "finished",
                             ![r].background_tasks = <<>>,
                             ![r].response = EndpointError(OtherException("Exception"))]
    /\ UNCHANGED <<active_clones, repo_dirs, outside_requests>>

\* The background task cleanup_repo starts after the response.
BackgroundCleanupStarts ==
    /\ \E r \in 1..Len(requests) :
          /\ requests[r].pc = "responded"
          /\ requests[r].background_tasks # <<>>
          /\ IF CleanupReturnsAtOnce(r)
             THEN /\ active_clones' = Discard(active_clones, requests[r].repo_path)
                  /\ requests' = [requests EXCEPT ![r].pc = "finished",
                                                  ![r].background_tasks = <<>>]
             ELSE /\ requests' = [requests EXCEPT ![r].pc = "background_rmtree"]
                  /\ UNCHANGED active_clones
    /\ UNCHANGED <<repo_dirs, outside_requests>>

\* The background task cleanup_repo ends.
BackgroundCleanupEnds ==
    /\ \E r \in 1..Len(requests), removed \in BOOLEAN :
          /\ requests[r].pc = "background_rmtree"
          /\ RmtreeEnds(r, removed)
          /\ requests' = [requests EXCEPT ![r].pc = "finished",
                                          ![r].background_tasks = <<>>]
    /\ UNCHANGED outside_requests

NextRequests ==
    \/ ReceiveRequest
    \/ CloneSucceeds
    \/ CloneFails
    \/ FailedCloneCleaned
    \/ AnalysisReturns
    \/ AnalysisRaises
    \/ BackgroundCleanupStarts
    \/ BackgroundCleanupEnds

SpecRequests == InitRequests /\ [][NextRequests]_vars

-----------------------------------------------------------------------------
(* Properties of the requests *)

\* C17: a request whose clone failed with a git command error is answered
\* 400; one whose clone failed with another exception, or whose destination
\* directory existed, is answered 500; the answer has the detail of the
\* HTTPException clone_repo raises, and carries no analysis result.
C17_AcquisitionFailureKeepsCategory ==
    \A r \in 1..Len(requests) :
        requests[r].pc = "finished" =>
            /\ requests[r].clone_outcome = "GitCommandError" =>
                  requests[r].response =
                      Response(HTTP_400_BAD_REQUEST, "Failed to clone repository", "none")
            /\ requests[r].clone_outcome = "Exception" =>
                  requests[r].response =
                      Response(HTTP_500_INTERNAL_SERVER_ERROR,
                               "An unexpected error occurred during the cloning process.",
                               "none")
            /\ requests[r].clone_outcome = "collision" =>
                  requests[r].response =
                      Response(HTTP_500_INTERNAL_SERVER_ERROR,
                               "Temporary directory collision", "none")

\* C18: once every request and every cleanup task has finished, no path is
\* left in active_clones and no cloned directory remains.
C18_EveryCloneCleanedUp ==
    (requests # <<>> /\ \A r \in 1..Len(requests) : requests[r].pc = "finished") =>
        /\ active_clones = {}
        /\ repo_dirs = {}

-----------------------------------------------------------------------------
(* parse_python_file and PythonASTVisitor (python_parser.py) *)

\* ast.arguments: the names of the parameters by kind, in the order
\* def f(posonlyargs, /, args, *vararg, kwonlyargs, **kwarg).
Arguments(posonlyargs, args, vararg, kwonlyargs, kwarg) ==
    [posonlyargs |-> posonlyargs, args |-> args, vararg |-> vararg,
     kwonlyargs |-> kwonlyargs, kwarg |-> kwarg]

NoArguments == Arguments(<<>>, <<>>, <<>>, <<>>, <<>>)

\* The statements of the ast: every node has the fields of all kinds.
Stmt(kind, name, args, body, names, module, level) ==
    [kind |-> kind, name |-> name, args |-> args, body |-> body,
     names |-> names, module |-> module, level |-> level]

FunctionDef(name, args, body) == Stmt("FunctionDef", name, args, body, <<>>, None, 0)
AsyncFunctionDef(name, args, body) == Stmt("AsyncFunctionDef", name, args, body, <<>>, None, 0)
ClassDef(name, body) == Stmt("ClassDef", name, NoArguments, body, <<>>, None, 0)
Import(names) == Stmt("Import", <<>>, NoArguments, <<>>, names, None, 0)
ImportFrom(module, names, level) == Stmt("ImportFrom", <<>>, NoArguments, <<>>, names, module, level)
If(body) == Stmt("If", <<>>, NoArguments, body, <<>>, None, 0)
Pass == Stmt("Pass", <<>>, NoArguments, <<>>, <<>>, None, 0)

IsFunction(node) == node.kind \in {"FunctionDef", "AsyncFunctionDef"}

\* CodeElement, with the fields taken from the names of the source.
CodeElement(type, name, parameters) ==
    [type |-> type, name |-> name, parameters |-> parameters]

\* _get_function_details: params = [arg.arg for arg in node.args.args]
GetFunctionDetails(node) == node.args.args

\* _get_class_details: the methods, from the functions of node.body.
RECURSIVE GetClassDetails(_, _)
GetClassDetails(node, i) ==
    IF i > Len(node.body) THEN <<>>
    ELSE IF IsFunction(node.body[i])
    THEN <<CodeElement("method", node.body[i].name, GetFunctionDetails(node.body[i]))>>
             \o GetClassDetails(node, i + 1)
    ELSE GetClassDetails(node, i + 1)

\* "." * node.level
Dots(level) == [i \in 1..level |-> "."]

\* visit_Import: for alias in node.names: self.imports.append(alias.name)
ImportNames(node) == node.names

\* visit_ImportFrom: the specifiers appended.
ImportFromNames(node) ==
    IF node.module # None THEN <<Dots(node.level) \o node.module>>
    ELSE IF node.level > 0
    THEN IF node.names # <<>> THEN <<Dots(node.level) \o node.names[1]>>
         ELSE <<Dots(node.level)>>
    ELSE <<>>

\* NodeVisitor.visit over the statements stmts[i..]: visit_FunctionDef,
\* visit_AsyncFunctionDef and visit_ClassDef do not call generic_visit;
\* visit_Import and visit_ImportFrom do (their children are aliases); every
\* other statement is visited by generic_visit, which visits the
\* statements of its body.
RECURSIVE Visit(_, _, _)
Visit(stmts, i, visitor) ==
    IF i > Len(stmts) THEN visitor
    ELSE LET node == stmts[i]
             after ==
                 IF IsFunction(node)
                 THEN [visitor EXCEPT !.elements =
                          Append(@, CodeElement("function", node.name, GetFunctionDetails(node)))]
                 ELSE IF node.kind = "ClassDef"
                 THEN [visitor EXCEPT !.elements =
                          Append(@, CodeElement("class", node.name, <<>>))
                              \o GetClassDetails(node, 1)]
                 ELSE IF node.kind = "Import"
                 THEN [visitor EXCEPT !.imports = @ \o ImportNames(node)]
                 ELSE IF node.kind = "ImportFrom"
                 THEN [visitor EXCEPT !.imports = @ \o ImportFromNames(node)]
                 ELSE Visit(node.body, 1, visitor)
         IN  Visit(stmts, i + 1, after)

\* parse_python_file for a file that is read and parsed without exception.
ParsePythonSource(body) ==
    LET visitor == Visit(body, 1, [elements |-> <<>>, imports |-> <<>>])
    IN  [returned |-> TRUE, elements |-> visitor.elements, imports |-> visitor.imports]

-----------------------------------------------------------------------------
(* Calls of parse_python_file *)

\* def name(self, a): pass
PlainArguments == Arguments(<<>>, <<<<"s", "e", "l", "f">>, <<"a">>>>, <<>>, <<>>, <<>>)

\* def name(p, /, a, *r, q, **s): pass
AllKindsArguments == Arguments(<<<<"p">>>>, <<<<"a">>>>, <<<<"r">>>>, <<<<"q">>>>, <<<<"s">>>>)

\* def name(self, *r, **s): pass
VariadicArguments == Arguments(<<>>, <<<<"s", "e", "l", "f">>>>, <<<<"r">>>>, <<>>, <<<<"s">>>>)

\* The statements a module of the model is made of.
Statements ==
    <<Import(<<<<"a">>, <<"b">>>>),
      ImportFrom(<<"x">>, <<<<"y">>>>, 1),
      ImportFrom(None, <<<<"y">>, <<"z">>>>, 2),
      ImportFrom(<<"x">>, <<<<"y">>>>, 0),
      FunctionDef(<<"f">>, PlainArguments, <<Pass>>),
      FunctionDef(<<"g">>, PlainArguments,
                  <<Import(<<<<"c">>>>), FunctionDef(<<"h">>, PlainArguments, <<Pass>>),
                    ClassDef(<<"i">>, <<Pass>>)>>),
      AsyncFunctionDef(<<"k">>, AllKindsArguments, <<Pass>>),
      ClassDef(<<"l">>,
               <<FunctionDef(<<"m">>, PlainArguments, <<Pass>>),
                 Pass,
                 AsyncFunctionDef(<<"n">>, PlainArguments,
                                  <<FunctionDef(<<"o">>, PlainArguments, <<Pass>>)>>)>>),
      ClassDef(<<"t">>,
               <<ImportFrom(<<"x">>, <<<<"y">>>>, 1),
                 FunctionDef(<<"u">>, VariadicArguments, <<Import(<<<<"d">>>>)>>)>>),
      If(<<Import(<<<<"e">>>>),
           ClassDef(<<"v">>, <<FunctionDef(<<"w">>, PlainArguments, <<Pass>>)>>),
           FunctionDef(<<"f">>, PlainArguments, <<Pass>>)>>),
      ClassDef(<<"j">>, <<Pass>>)>>

\* The statements of a module are at most MaxStatements.
MaxStatements == 2

PythonModules ==
    UNION {[1..n -> Range(Statements)] : n \in 1..MaxStatements}

InitPython ==
    /\ pc = "parsed"
    /\ all_files = <<>>
    /\ graph = <<>>
    /\ dep_analysis = NoAnalysis
    /\ visited = {}
    /\ recursion_stack = <<>>
    /\ all_cycles = {}
    /\ nodes = <<>>
    /\ node_index = 1
    /\ frames = <<>>
    /\ cycles = <<>>
    /\ resolve_call = NoCall
    /\ TreeIdle
    /\ ParseIdle
    /\ RequestsIdle
    /\ module_ast \in PythonModules
    /\ python_result = NoPythonResult
    /\ FlowIdle

\* elements, imports = parse_python_file(file_path)
ParsePythonFileCall ==
    /\ python_result' = ParsePythonSource(module_ast)
    /\ UNCHANGED <<module_ast, pipeline_vars, resolve_call, tree_vars, parse_vars, request_vars,
                   flow_vars>>

NextPython == ParsePythonFileCall

SpecPython == InitPython /\ [][NextPython]_vars

-----------------------------------------------------------------------------
(* Properties of parse_python_file *)

\* The names of the parameters of a function in the order of its def.
ParameterNames(node) ==
    node.args.posonlyargs \o node.args.args \o node.args.vararg
        \o node.args.kwonlyargs \o node.args.kwarg

\* The functions a class declares directly in its body, as methods.
RECURSIVE MethodsOf(_, _)
MethodsOf(node, i) ==
    IF i > Len(node.body) THEN <<>>
    ELSE (IF IsFunction(node.body[i])
          THEN <<CodeElement("method", node.body[i].name, ParameterNames(node.body[i]))>>
          ELSE <<>>) \o MethodsOf(node, i + 1)

\* The class element of every class of the module that is in no function
\* and in no class, each followed by its methods, in source order.
RECURSIVE ClassRuns(_, _)
ClassRuns(stmts, i) ==
    IF i > Len(stmts) THEN <<>>
    ELSE (IF stmts[i].kind = "ClassDef"
          THEN <<CodeElement("class", stmts[i].name, <<>>)>> \o MethodsOf(stmts[i], 1)
          ELSE IF stmts[i].kind = "If" THEN ClassRuns(stmts[i].body, 1)
          ELSE <<>>) \o ClassRuns(stmts, i + 1)

\* The names of the functions and classes declared inside a function or
\* inside a method.
RECURSIVE DeclaredNames(_, _)
DeclaredNames(stmts, i) ==
    IF i > Len(stmts) THEN {}
    ELSE (IF IsFunction(stmts[i]) \/ stmts[i].kind = "ClassDef"
          THEN {stmts[i].name} \cup DeclaredNames(stmts[i].body, 1)
          ELSE DeclaredNames(stmts[i].body, 1)) \cup DeclaredNames(stmts, i + 1)

RECURSIVE NestedInFunction(_, _)
NestedInFunction(stmts, i) ==
    IF i > Len(stmts) THEN {}
    ELSE (IF IsFunction(stmts[i]) THEN DeclaredNames(stmts[i].body, 1)
          ELSE NestedInFunction(stmts[i].body, 1)) \cup NestedInFunction(stmts, i + 1)

IsClassOrMethod(element) == element.type \in {"class", "method"}

\* C19: the class and method elements are, for every class in source
\* order, one class element followed by one method element for each
\* function of its body, in source order, with the names of its parameters
\* in the order of the declaration; a method element directly follows a
\* class or a method element; and no element is emitted for a function or a
\* class declared inside a function or a method.
C19_ClassFollowedByItsMethods ==
    python_result.returned =>
        /\ SelectSeq(python_result.elements, IsClassOrMethod) = ClassRuns(module_ast, 1)
        /\ \A q \in 1..Len(python_result.elements) :
              python_result.elements[q].type = "method" =>
                  q > 1 /\ IsClassOrMethod(python_result.elements[q - 1])
        /\ \A q \in 1..Len(python_result.elements) :
              python_result.elements[q].name \notin NestedInFunction(module_ast, 1)

\* The specifiers of one import statement.
SpecifiersOf(node) ==
    IF node.kind = "Import" THEN node.names
    ELSE IF node.kind = "ImportFrom" /\ node.module # None
    THEN <<Dots(node.level) \o node.module>>
    ELSE IF node.kind = "ImportFrom" /\ node.level > 0
    THEN <<Dots(node.level) \o node.names[1]>>
    ELSE <<>>

\* The specifiers of every import statement of the module, wherever it is
\* written, in source order.
RECURSIVE AllSpecifiers(_, _)
AllSpecifiers(stmts, i) ==
    IF i > Len(stmts) THEN <<>>
    ELSE SpecifiersOf(stmts[i]) \o AllSpecifiers(stmts[i].body, 1)
             \o AllSpecifiers(stmts, i + 1)

\* C20: imports holds the specifiers of every import statement of the
\* file, at module level, in a function body, in a class body or in a
\* method, in source order.
C20_EveryImportStatementRecorded ==
    python_result.returned => python_result.imports = AllSpecifiers(module_ast, 1)

-----------------------------------------------------------------------------
(* Python sources end to end: visit_ImportFrom, then build_dependency_graph *)

\* The modules a from-import of the model names.
PythonModuleNames == {<<"x">>, <<"m">>}

\* The specifier visit_ImportFrom records for `from <level dots><module> import y`.
RecordedSpecifier(module, level) ==
    ImportFromNames(ImportFrom(module, <<<<"y">>>>, level))[1]

\* The dotted module name as a path: a.b is a/b.
DottedToSlash(module) == [i \in 1..Len(module) |-> IF module[i] = "." THEN "/" ELSE module[i]]

\* The directory level - 1 packages above the directory dir.
RECURSIVE PackageUp(_, _)
PackageUp(dir, level) ==
    IF level <= 1 THEN dir ELSE PackageUp(PathParent(dir), level - 1)

\* The module file that `from <level dots><module> import y`, written in the
\* file at path, names: module.py in the package level - 1 above the package
\* of the file.
PythonModuleFile(path, module, level) ==
    LET package == PackageUp(PathParent(PurePath(path)), level)
    IN  PathStr(PathJoin(package, DottedToSlash(module) \o <<".", "p", "y">>))

\* The file is nested deeply enough for a from-import of this level.
RECURSIVE InsidePackages(_, _)
InsidePackages(dir, level) ==
    IF level <= 1 THEN TRUE
    ELSE PathStr(dir) # <<".">> /\ InsidePackages(PathParent(dir), level - 1)

\* C21: a relative from-import of a Python file, recorded by the parser as
\* the dots followed by the module name, gives an edge from the file to the
\* module file of the same package (one dot) or of the parent package (two
\* dots) whenever that file is in the analyzed set.
C21_PythonRelativeImportGivesEdge ==
    pc = "graph" =>
        \A i \in 1..Len(all_files) : \A module \in PythonModuleNames : \A level \in {1, 2} :
            LET file_node == all_files[i]
                target == PythonModuleFile(file_node.path, module, level)
            IN  (/\ InsidePackages(PathParent(PurePath(file_node.path)), level)
                 /\ RecordedSpecifier(module, level) \in Range(file_node.imports)
                 /\ HasFile(all_files, target))
                    => target \in Range(GraphGet(graph, file_node.path))

-----------------------------------------------------------------------------
(* The traversal of find_circular_dependencies *)

\* The graph has the edge source -> target.
HasEdge(source, target) == target \in Range(GraphGet(graph, source))

\* The files of the graph: its keys and the targets of its edges.
GraphFiles == FilesInGraph(graph)

\* The files reached from the files of S over at most n edges.
RECURSIVE ReachedWithin(_, _)
ReachedWithin(S, n) ==
    IF n = 0 THEN S
    ELSE ReachedWithin(S \cup {target \in GraphFiles : \E source \in S : HasEdge(source, target)},
                       n - 1)

\* target is reached from source over one edge or more.
Reaches(source, target) ==
    \E next \in GraphFiles :
        HasEdge(source, next) /\ target \in ReachedWithin({next}, Cardinality(GraphFiles))

\* The recursion stack is a path of the graph without a repeated file.
StackIsPath ==
    /\ \A i, j \in 1..Len(recursion_stack) : i # j => recursion_stack[i] # recursion_stack[j]
    /\ \A i \in 1..(Len(recursion_stack) - 1) : HasEdge(recursion_stack[i], recursion_stack[i + 1])

\* The files of the cycle, in some order, are a closed loop of the graph.
ClosedLoop(cycle) ==
    /\ cycle # <<>>
    /\ \E v \in Orderings(Range(cycle)) :
          /\ \A i \in 1..(Len(v) - 1) : HasEdge(v[i], v[i + 1])
          /\ HasEdge(v[Len(v)], v[1])

\* The files of the cycle reach each other.
StronglyConnected(cycle) ==
    \A m, n \in Range(cycle) : Reaches(m, n)

\* C22: during the traversal the recursion stack is a duplicate-free path
\* of the graph, and every cycle recorded or returned is a closed loop
\* v1 -> v2 -> ... -> vk -> v1 of the graph whose files all reach each other.
C22_EveryCycleIsClosedLoop ==
    /\ pc \in {"loop", "dfs", "done"} => StackIsPath
    /\ pc \in {"loop", "dfs"} =>
          \A cycle \in all_cycles : ClosedLoop(cycle) /\ StronglyConnected(cycle)
    /\ pc = "done" =>
          \A c \in 1..Len(cycles) : ClosedLoop(cycles[c]) /\ StronglyConnected(cycles[c])

\* A traversal that went down one branch, came back and is two files deep
\* in a second branch, with a cycle of three files recorded.
C22_Witness ==
    /\ pc = "dfs"
    /\ Len(recursion_stack) >= 2
    /\ \E n \in visited : ~InStack(recursion_stack, n)
    /\ \E cycle \in all_cycles : Len(cycle) = 3

\* The steps of find_circular_dependencies and _find_cycles_dfs.
Traversal ==
    \/ FindCircularDependencies
    \/ LoopCall
    \/ LoopSkip
    \/ DfsDescend
    \/ DfsCycle
    \/ DfsSkip
    \/ DfsReturn
    \/ ReturnCycles

\* find_circular_dependencies is sequential code: once it is called, the
\* step it is at is taken.
SpecTerminates == Spec /\ WF_vars(Traversal)

\* A step that enters _find_cycles_dfs: a call is added to the active calls.
EntersDfs == Len(frames') > Len(frames)

\* The list of dependencies holds a file twice.
HasDuplicateEdge(source) ==
    LET deps == GraphGet(graph, source)
    IN  \E i, j \in 1..Len(deps) : i # j /\ deps[i] = deps[j]

\* C23: find_circular_dependencies, once called, returns; _find_cycles_dfs is entered
\* only for a node that is not yet visited, which it marks visited for good,
\* so at most once per node; and the recursion stack is empty between the
\* top-level traversals and when the function has returned.
C23_TraversalTerminates ==
    /\ (pc = "analyzed") ~> (pc = "done")
    /\ [][/\ visited \subseteq visited'
          /\ EntersDfs => /\ frames'[Len(frames')].node \notin visited
                          /\ frames'[Len(frames')].node \in visited']_vars
    /\ [](pc \in {"loop", "done"} => recursion_stack = <<>> /\ frames = <<>>)

\* The function has returned for a graph with a cycle of two files or more,
\* a self-edge and a duplicate edge.
C23_Witness ==
    /\ pc = "done"
    /\ \E c \in 1..Len(cycles) : Len(cycles[c]) >= 2
    /\ \E n \in GraphFiles : HasEdge(n, n)
    /\ \E n \in GraphFiles : HasDuplicateEdge(n)

\* The files that lie on a directed cycle of the graph.
FilesOnCycle == {n \in GraphFiles : Reaches(n, n)}

\* C24: the list returned is non-empty exactly when the graph has a
\* directed cycle, and when the only cycle of the graph is a self-edge
\* f -> f the list is the single cycle (f).
C24_CyclesIffGraphCyclic ==
    pc = "done" =>
        /\ (cycles # <<>>) <=> (FilesOnCycle # {})
        /\ \A f \in GraphFiles : (FilesOnCycle = {f}) => (cycles = <<<<f>>>>)

\* The graph has edges between different files and its only cycle is a
\* self-edge, which is returned.
C24_Witness ==
    /\ pc = "done"
    /\ \E f \in GraphFiles :
          /\ FilesOnCycle = {f}
          /\ cycles = <<<<f>>>>
          /\ \E n \in GraphFiles : n # f /\ (HasEdge(f, n) \/ HasEdge(n, f))

\* An acyclic graph with edges, for which the empty list is returned.
C24_WitnessAcyclic ==
    /\ pc = "done"
    /\ graph # <<>>
    /\ FilesOnCycle = {}
    /\ cycles = <<>>

-----------------------------------------------------------------------------
(* The React Flow output *)

\* C25: in the output of _build_react_flow_graph no two edges have the same
\* id, every analyzed file has exactly one node, there is no other node,
\* and the source and the target of every edge are ids of nodes.
C25_ReactFlowOutputWellFormed ==
    pc = "response" =>
        /\ \A i, j \in 1..Len(graph_edges) : i # j => graph_edges[i].id # graph_edges[j].id
        /\ Len(graph_nodes) = Len(all_files)
        /\ \A f \in 1..Len(all_files) :
              Cardinality({i \in 1..Len(graph_nodes) : graph_nodes[i].id = all_files[f].path}) = 1
        /\ \A i \in 1..Len(graph_edges) :
              /\ \E n \in 1..Len(graph_nodes) : graph_nodes[n].id = graph_edges[i].source
              /\ \E n \in 1..Len(graph_nodes) : graph_nodes[n].id = graph_edges[i].target

====
